---- MODULE Spec2Model ----
(***************************************************************************)
(* A model of Luau's ConstraintGraphBuilder (Analysis/src/                 *)
(* ConstraintGraphBuilder.cpp): the traversal that turns a parsed AST into *)
(* a scope tree, an arena of types and type packs and an ordered list of   *)
(* constraints with dependencies.                                          *)
(*                                                                         *)
(* The builder is a single-threaded recursive walk.  Every C++ function is *)
(* an operator from builder state to builder state (the state is the       *)
(* record built by State); a function's return value is left in the        *)
(* field ret.  The actions run the top-level visit one statement at a      *)
(* time, so that the states between two top-level statements are visible.  *)
(***************************************************************************)
EXTENDS Integers, Sequences, FiniteSets, TLC

\* With(v, K) is K applied to v: the body of K names the value v once.
With(v, K(_)) == CASE <<v>> # <<>> -> K(v)

VARIABLES
    program,        \* the AstStatBlock handed to visit(AstStatBlock*)
    limit,          \* FInt::LuauCheckRecursionLimit
    noDefs,         \* the locals the data-flow graph has no definition for
    ub,             \* what an out-of-bounds read gives: 0 is a crash, else the value read
    negatedClassTypes,      \* FFlag::LuauNegatedClassTypes
    pc,             \* position of the top-level visit: "start", "body", "done"
    next,           \* index of the next top-level statement to visit
    types,          \* TypeArena: types, by TypeId (1..Len)
    typePacks,      \* TypeArena: type packs, by TypePackId
    scopes,         \* the scopes, by creation order (cgb->scopes)
    constraints,    \* cgb->constraints
    errors,         \* cgb->errors
    astTypes,       \* module->astTypes
    astTypePacks,   \* module->astTypePacks
    astScopes,      \* module->astScopes
    astExpectedTypes,       \* module->astExpectedTypes
    astOriginalCallTypes,   \* module->astOriginalCallTypes
    astResolvedTypes,       \* module->astResolvedTypes
    declaredGlobals,        \* module->declaredGlobals
    aliasScopes,    \* cgb->astTypeAliasDefiningScopes
    recursionCount, \* cgb->recursionCount
    thrown,         \* an exception (RecursionLimitException, ice) is unwinding
    asserts,        \* the LUAU_ASSERTs that have failed
    log,            \* a record of what each handler did (local variables)
    ir              \* the IrBuilder that buildFunctionIr runs

vars == <<program, limit, noDefs, ub, negatedClassTypes, pc, next, types, typePacks,
          scopes, constraints, errors, astTypes, astTypePacks, astScopes, astExpectedTypes,
          astOriginalCallTypes, astResolvedTypes, declaredGlobals, aliasScopes,
          recursionCount, thrown, asserts, log, ir>>

(***************************************************************************)
(* Finite maps (std::unordered_map, DenseHashMap).                         *)
(***************************************************************************)
EmptyMap == <<>>

Put(m, k, v) == (k :> v) @@ m

Has(m, k) == k \in DOMAIN m

Range(q) == {q[i] : i \in DOMAIN q}

(***************************************************************************)
(* Type arena.  A type is a record; a TypeId is its index, 0 is nullptr.   *)
(***************************************************************************)
Ty(tag, parts, packs, props, name) ==
    [tag |-> tag, parts |-> parts, packs |-> packs, props |-> props, name |-> name]

PrimTy(name) == Ty("Primitive", <<>>, <<>>, EmptyMap, name)
FreeTy == Ty("Free", <<>>, <<>>, EmptyMap, "")
BlockedTy == Ty("Blocked", <<>>, <<>>, EmptyMap, "")
BoundTy(to) == Ty("Bound", <<to>>, <<>>, EmptyMap, "")
UnionTy(parts) == Ty("Union", parts, <<>>, EmptyMap, "")
IntersectionTy(parts) == Ty("Intersection", parts, <<>>, EmptyMap, "")
NegationTy(inner) == Ty("Negation", <<inner>>, <<>>, EmptyMap, "")
FunctionTy(argPack, retPack) == Ty("Function", <<>>, <<argPack, retPack>>, EmptyMap, "")
\* TableType: parts is the indexer <<indexType, indexResultType>>, or <<>>
TableTy(props, state) == Ty("Table", <<>>, <<>>, props, state)
IndexedTableTy(props, state, indexType, indexResultType) ==
    Ty("Table", <<indexType, indexResultType>>, <<>>, props, state)
MetatableTy(target, mt) == Ty("Metatable", <<target, mt>>, <<>>, EmptyMap, "")
ClassTy(name, parent, metatable) == Ty("Class", <<parent, metatable>>, <<>>, EmptyMap, name)
GenericTy(name) == Ty("Generic", <<>>, <<>>, EmptyMap, name)
PendingTy(name, params) == Ty("PendingExpansion", params, <<>>, EmptyMap, name)

Pk(tag, head, tail) == [tag |-> tag, head |-> head, tail |-> tail]

\* builtinTypes: the types every arena starts with, by position.
BuiltinNames == <<"nil", "number", "string", "boolean", "thread", "table", "function",
                  "any", "never", "error", "truthy", "class", "globalfn">>

BuiltinId(name) == CHOOSE i \in DOMAIN BuiltinNames : BuiltinNames[i] = name

nilType == BuiltinId("nil")
numberType == BuiltinId("number")
stringType == BuiltinId("string")
booleanType == BuiltinId("boolean")
threadType == BuiltinId("thread")
tableType == BuiltinId("table")
functionType == BuiltinId("function")
anyType == BuiltinId("any")
neverType == BuiltinId("never")
errorRecoveryType == BuiltinId("error")
truthyType == BuiltinId("truthy")
classType == BuiltinId("class")
globalFnType == BuiltinId("globalfn")

SingletonTy(value) == Ty("Singleton", <<>>, <<>>, EmptyMap, value)

trueType == Len(BuiltinNames) + 1
falseType == Len(BuiltinNames) + 2

BuiltinTypes == [i \in DOMAIN BuiltinNames |-> PrimTy(BuiltinNames[i])]
                    \o <<SingletonTy("true"), SingletonTy("false")>>

\* builtinTypes->errorRecoveryTypePack(), builtinTypes->anyTypePack
BuiltinPacks == <<Pk("ErrorPack", <<>>, 0), Pk("Variadic", <<anyType>>, 0)>>
errorRecoveryTypePack == CHOOSE i \in DOMAIN BuiltinPacks : BuiltinPacks[i].tag = "ErrorPack"
anyTypePack == CHOOSE i \in DOMAIN BuiltinPacks : BuiltinPacks[i].tag = "Variadic"

\* arena->addType: the new TypeId is Len(s.types) afterwards.
addType(s, t) == IF s.thrown THEN s ELSE [s EXCEPT !.types = Append(@, t)]

lastType(s) == Len(s.types)

addTypePack(s, p) == IF s.thrown THEN s ELSE [s EXCEPT !.typePacks = Append(@, p)]

lastPack(s) == Len(s.typePacks)

\* asMutable(ty)->ty.emplace<...>(...): rewrite a node in place.
emplaceType(s, ty, t) == IF s.thrown THEN s ELSE [s EXCEPT !.types[ty] = t]

emplacePack(s, tp, p) == IF s.thrown THEN s ELSE [s EXCEPT !.typePacks[tp] = p]

\* follow: chase Bound links.  The fuel is the arena's size, so that a Bound
\* cycle (which the real follow reports as an internal error) ends the walk.
RECURSIVE followN(_, _, _)
followN(ts, ty, fuel) ==
    IF fuel = 0 \/ ts[ty].tag # "Bound" THEN ty
    ELSE followN(ts, ts[ty].parts[1], fuel - 1)

follow(s, ty) == followN(s.types, ty, Len(s.types))

RECURSIVE followPackN(_, _, _)
followPackN(ps, tp, fuel) ==
    IF fuel = 0 \/ ps[tp].tag # "BoundPack" THEN tp
    ELSE followPackN(ps, ps[tp].tail, fuel - 1)

followPack(s, tp) == followPackN(s.typePacks, tp, Len(s.typePacks))

(***************************************************************************)
(* Scopes.  A ScopePtr is an index into scopes; 0 is nullptr.              *)
(***************************************************************************)
Scope(parent, node) ==
    [parent |-> parent, children |-> <<>>, node |-> node,
     returnType |-> 0, varargPack |-> 0,
     bindings |-> EmptyMap, dcrRefinements |-> EmptyMap,
     exportedTypeBindings |-> EmptyMap, privateTypeBindings |-> EmptyMap,
     importedTypeBindings |-> EmptyMap, typeAliasTypeParameters |-> EmptyMap]

\* A Symbol is an AstLocal* or a global's AstName.
LSym(l) == <<"local", l>>
GSym(g) == <<"global", g>>

TypeFun(params, ty) == [typeParams |-> params, type |-> ty]

lastScope(s) == Len(s.scopes)

childScope(s, node, parent) ==
    IF s.thrown THEN s
    ELSE LET sc == [Scope(parent, node) EXCEPT
                        !.returnType = s.scopes[parent].returnType,
                        !.varargPack = s.scopes[parent].varargPack]
             id == Len(s.scopes) + 1
         IN [s EXCEPT !.scopes = [Append(@, sc) EXCEPT ![parent].children = Append(@, id)],
                      !.astScopes = Put(@, node, id)]

\* scope->bindings[sym] = Binding{ty, ...}
bind(s, sc, sym, ty) ==
    IF s.thrown THEN s ELSE [s EXCEPT !.scopes[sc].bindings = Put(@, sym, ty)]

\* scope->dcrRefinements[def] = ty
setRefinement(s, sc, def, ty) ==
    IF s.thrown THEN s ELSE [s EXCEPT !.scopes[sc].dcrRefinements = Put(@, def, ty)]

\* Scope::lookupEx(Symbol): the binding and the scope that holds it; ty = 0 if none.
RECURSIVE lookupEx(_, _, _)
lookupEx(s, sc, sym) ==
    IF sc = 0 THEN [ty |-> 0, scope |-> 0]
    ELSE IF Has(s.scopes[sc].bindings, sym) THEN [ty |-> s.scopes[sc].bindings[sym], scope |-> sc]
    ELSE lookupEx(s, s.scopes[sc].parent, sym)

\* Scope::lookup(Symbol)
lookup(s, sc, sym) == lookupEx(s, sc, sym).ty

\* Scope::lookup(DefId)
RECURSIVE lookupDef(_, _, _)
lookupDef(s, sc, def) ==
    IF sc = 0 THEN 0
    ELSE IF Has(s.scopes[sc].dcrRefinements, def) THEN s.scopes[sc].dcrRefinements[def]
    ELSE lookupDef(s, s.scopes[sc].parent, def)

\* Scope::lookupType(name): exported, then private, then the parent.
NoTypeFun == [typeParams |-> <<>>, type |-> 0]

RECURSIVE lookupType(_, _, _)
lookupType(s, sc, name) ==
    IF sc = 0 THEN NoTypeFun
    ELSE IF Has(s.scopes[sc].exportedTypeBindings, name) THEN s.scopes[sc].exportedTypeBindings[name]
    ELSE IF Has(s.scopes[sc].privateTypeBindings, name) THEN s.scopes[sc].privateTypeBindings[name]
    ELSE lookupType(s, s.scopes[sc].parent, name)

(***************************************************************************)
(* Constraints and checkpoints.                                            *)
(***************************************************************************)
Checkpoint(s) == Len(s.constraints)

\* A constraint: cid is the identity of the Constraint object (what a
\* dependency pointer points at), deps the cids it depends on.
Constraint(cid, scope, loc, kind, args, name) ==
    [cid |-> cid, scope |-> scope, loc |-> loc, kind |-> kind, args |-> args,
     name |-> name, deps |-> <<>>]

\* a list that grows at its front
prependConstraint(s, c) ==
    IF s.thrown THEN s ELSE [s EXCEPT !.constraints = <<c>> \o @]

addConstraintC(s, c) ==
    IF s.thrown THEN s ELSE [s EXCEPT !.constraints = Append(@, c)]

addConstraint(s, scope, loc, kind, args) ==
    addConstraintC(s, Constraint(Len(s.constraints) + 1, scope, loc, kind, args, ""))

addNameConstraint(s, scope, loc, target, name) ==
    addConstraintC(s, Constraint(Len(s.constraints) + 1, scope, loc, "Name", <<target>>, name))

\* the NotNull<Constraint> that addConstraint returned
lastConstraint(s) ==
    IF s.constraints = <<>> THEN 0 ELSE s.constraints[Len(s.constraints)].cid

\* forEachConstraint(start, end, ...): the constraints at [start, end), in order.
forEachConstraint(s, start, end) ==
    [i \in 1..(IF end > start THEN end - start ELSE 0) |-> s.constraints[start + i].cid]

\* c->dependencies.push_back(d), for every d of ds
addDependencies(s, cid, ds) ==
    IF s.thrown THEN s
    ELSE [s EXCEPT !.constraints =
            [i \in DOMAIN @ |-> IF @[i].cid = cid THEN [@[i] EXCEPT !.deps = @ \o ds] ELSE @[i]] \o <<>>]

\* every constraint of cs gets d as a dependency
addDependencyToAll(s, cs, d) ==
    IF s.thrown THEN s
    ELSE [s EXCEPT !.constraints =
            [i \in DOMAIN @ |-> IF @[i].cid \in Range(cs) THEN [@[i] EXCEPT !.deps = Append(@, d)] ELSE @[i]] \o <<>>]

reportError(s, loc, kind) ==
    IF s.thrown THEN s ELSE [s EXCEPT !.errors = Append(@, [loc |-> loc, kind |-> kind])]

reportCodeTooComplex(s, loc) == reportError(s, loc, "CodeTooComplex")

\* LUAU_ASSERT(cond): a failed assertion is recorded; a release build goes on.
luauAssert(s, cond, what) ==
    IF s.thrown \/ cond THEN s ELSE [s EXCEPT !.asserts = @ \cup {what}]

\* ice->ice(...) throws InternalCompilerError.
ice(s, what) == IF s.thrown THEN s ELSE [s EXCEPT !.thrown = TRUE, !.asserts = @ \cup {what}]

setRet(s, r) == [s EXCEPT !.ret = r]

(***************************************************************************)
(* The AST (Luau/Ast.h).  A node is a record: k is its class, id stands    *)
(* for its address (the key of the module's maps) and its location.        *)
(***************************************************************************)
NoNode == [k |-> "None", id |-> ""]

ENumber(id) == [k |-> "ConstantNumber", id |-> id]
ENil(id) == [k |-> "ConstantNil", id |-> id]
EString(id, value) == [k |-> "ConstantString", id |-> id, value |-> value]
EBool(id, value) == [k |-> "ConstantBool", id |-> id, value |-> value]
ELocal(id, local) == [k |-> "Local", id |-> id, local |-> local]
EGlobal(id, name) == [k |-> "Global", id |-> id, name |-> name]
EVarargs(id) == [k |-> "Varargs", id |-> id]
EGroup(id, expr) == [k |-> "Group", id |-> id, expr |-> expr]
ECall(id, func, args) == [k |-> "Call", id |-> id, func |-> func, args |-> args, self |-> FALSE]
EMethodCall(id, func, args) == [k |-> "Call", id |-> id, func |-> func, args |-> args, self |-> TRUE]
EIndexName(id, expr, index) == [k |-> "IndexName", id |-> id, expr |-> expr, index |-> index]
EIndexExpr(id, expr, index) == [k |-> "IndexExpr", id |-> id, expr |-> expr, index |-> index]
EUnary(id, op, expr) == [k |-> "Unary", id |-> id, op |-> op, expr |-> expr]
EBinary(id, op, left, right) == [k |-> "Binary", id |-> id, op |-> op, left |-> left, right |-> right]
EIfElse(id, c, t, e) == [k |-> "IfElse", id |-> id, condition |-> c, trueExpr |-> t, falseExpr |-> e]
ETypeAssertion(id, expr, annotation) == [k |-> "TypeAssertion", id |-> id, expr |-> expr, annotation |-> annotation]
\* AstExprTable with List items only: items is the sequence of the values
ETable(id, items) == [k |-> "Table", id |-> id, items |-> items]
EError(id, exprs) == [k |-> "Error", id |-> id, expressions |-> exprs]

\* AstLocal: name stands for the AstLocal*, annotation is an AstType or NoNode.
Local(name, annotation) == [name |-> name, annotation |-> annotation]

\* AstExprFunction.  generics: names; args: AstLocals; returnAnnotation: a
\* sequence of AstTypes when hasReturn (std::optional<AstTypeList>).
EFunction(id, generics, args, vararg, hasReturn, returnAnnotation, body) ==
    [k |-> "Function", id |-> id, generics |-> generics, args |-> args, vararg |-> vararg,
     hasReturn |-> hasReturn, returnAnnotation |-> returnAnnotation, body |-> body]

SBlock(id, body) == [k |-> "Block", id |-> id, body |-> body]
SIf(id, c, thenbody, elsebody) ==
    [k |-> "If", id |-> id, condition |-> c, thenbody |-> thenbody, elsebody |-> elsebody]
SWhile(id, c, body) == [k |-> "While", id |-> id, condition |-> c, body |-> body]
SRepeat(id, body, c) == [k |-> "Repeat", id |-> id, condition |-> c, body |-> body]
SBreak(id) == [k |-> "Break", id |-> id]
SReturn(id, list) == [k |-> "Return", id |-> id, list |-> list]
SExpr(id, expr) == [k |-> "Expr", id |-> id, expr |-> expr]
SLocal(id, locals, values) == [k |-> "LocalStat", id |-> id, vars |-> locals, values |-> values]
SFor(id, var, from, to, step, body) ==
    [k |-> "For", id |-> id, var |-> var, from |-> from, to |-> to, step |-> step, body |-> body]
SForIn(id, locals, values, body) ==
    [k |-> "ForIn", id |-> id, vars |-> locals, values |-> values, body |-> body]
SAssign(id, targets, values) == [k |-> "Assign", id |-> id, vars |-> targets, values |-> values]
SCompoundAssign(id, op, var, value) ==
    [k |-> "CompoundAssign", id |-> id, op |-> op, var |-> var, value |-> value]
SFunction(id, name, func) == [k |-> "FunctionStat", id |-> id, name |-> name, func |-> func]
SLocalFunction(id, name, func) == [k |-> "LocalFunction", id |-> id, name |-> name, func |-> func]
STypeAlias(id, name, exported, generics, type) ==
    [k |-> "TypeAlias", id |-> id, name |-> name, exported |-> exported,
     generics |-> generics, type |-> type]
SDeclareGlobal(id, name, type) == [k |-> "DeclareGlobal", id |-> id, name |-> name, type |-> type]
\* props: AstDeclaredClassProp {name, ty, isMethod}; superName "" when absent
ClassProp(name, ty, isMethod) == [name |-> name, ty |-> ty, isMethod |-> isMethod]
SDeclareClass(id, name, superName, props) ==
    [k |-> "DeclareClass", id |-> id, name |-> name, superName |-> superName, props |-> props]
SError(id, statements, expressions) ==
    [k |-> "StatError", id |-> id, statements |-> statements, expressions |-> expressions]

\* AstType
TRef(id, name, parameters) == [k |-> "TypeReference", id |-> id, name |-> name, parameters |-> parameters]
TTable(id, props) == [k |-> "TypeTable", id |-> id, props |-> props]
TProp(name, type) == [name |-> name, type |-> type]
TFunction(id, generics, argTypes, returnTypes) ==
    [k |-> "TypeFunction", id |-> id, generics |-> generics, argTypes |-> argTypes,
     returnTypes |-> returnTypes]
TTypeof(id, expr) == [k |-> "TypeTypeof", id |-> id, expr |-> expr]
TUnion(id, parts) == [k |-> "TypeUnion", id |-> id, types |-> parts]
TIntersection(id, parts) == [k |-> "TypeIntersection", id |-> id, types |-> parts]
TSingletonBool(id, value) == [k |-> "TypeSingletonBool", id |-> id, value |-> value]
TSingletonString(id, value) == [k |-> "TypeSingletonString", id |-> id, value |-> value]
TError(id) == [k |-> "TypeError", id |-> id]

(***************************************************************************)
(* The data-flow graph (an input): a DefId is the path of a definition,    *)
(* <<x>> for the local x; <<>> is "no definition".                         *)
(***************************************************************************)
NoDef == <<>>

\* dfg->getDef(AstLocal*), dfg->getDef(Symbol)
getDefLocal(s, l) == IF l \in s.noDefs THEN NoDef ELSE <<l>>

\* dfg->getDef(AstExpr*): a local has its definition, x.f the definition
\* whose Cell has the parent getDef(x) and the field f.
RECURSIVE getDef(_, _)
getDef(s, expr) ==
    IF expr.k = "Local" THEN getDefLocal(s, expr.local)
    ELSE IF expr.k = "IndexName"
    THEN LET parent == getDef(s, expr.expr)
         IN IF parent = NoDef THEN NoDef ELSE Append(parent, expr.index)
    ELSE NoDef

(***************************************************************************)
(* Refinements (RefinementArena).  NoRefinement is the null RefinementId.  *)
(***************************************************************************)
NoRefinement == [r |-> "None"]

proposition(def, discriminantTy) == [r |-> "Proposition", def |-> def, discriminantTy |-> discriminantTy]

negation(refinement) ==
    IF refinement.r = "None" THEN NoRefinement ELSE [r |-> "Negation", refinement |-> refinement]

conjunction(lhs, rhs) ==
    IF lhs.r = "None" THEN rhs
    ELSE IF rhs.r = "None" THEN lhs
    ELSE [r |-> "Conjunction", lhs |-> lhs, rhs |-> rhs]

disjunction(lhs, rhs) ==
    IF lhs.r = "None" THEN rhs
    ELSE IF rhs.r = "None" THEN lhs
    ELSE [r |-> "Disjunction", lhs |-> lhs, rhs |-> rhs]

equivalence(lhs, rhs) ==
    IF lhs.r = "None" /\ rhs.r = "None" THEN NoRefinement
    ELSE [r |-> "Equivalence", lhs |-> lhs, rhs |-> rhs]

variadic(refis) == [r |-> "Variadic", refinements |-> refis]

Inference(ty, refinement) == [ty |-> ty, refinement |-> refinement]

InferencePack(tp, refinements) == [tp |-> tp, refinements |-> refinements]

\* An iteration order of an unordered_map's keys (the C++ order is
\* unspecified; the model takes one).
KeyOrder(S) == CHOOSE q \in [1..Cardinality(S) -> S] : Range(q) = S

\* The accumulators computeRefinement writes: the arena (in s), *refis and
\* *constraints.
RefAcc(s, refis, cs) == [s |-> s, refis |-> refis, cs |-> cs]

\* a merge of the side maps that intersects
intersectRefinements(s, lhs, rhs, dest) ==
    LET keys == KeyOrder(DOMAIN lhs)
        F[i \in 0..Len(keys)] ==
            IF i = 0 THEN [s |-> s, dest |-> dest]
            ELSE LET a == F[i - 1]
                     def == keys[i]
                 IN IF ~Has(rhs, def) THEN a
                    ELSE LET s1 == addType(a.s, IntersectionTy(<<lhs[def], rhs[def]>>))
                         IN [s |-> s1, dest |-> Put(a.dest, def, lastType(s1))]
    IN F[Len(keys)]

unionRefinements(s, lhs, rhs, dest) ==
    LET keys == KeyOrder(DOMAIN lhs)
        F[i \in 0..Len(keys)] ==
            IF i = 0 THEN [s |-> s, dest |-> dest]
            ELSE LET a == F[i - 1]
                     def == keys[i]
                 IN IF ~Has(rhs, def) THEN a
                    ELSE LET discriminants ==
                                 <<lhs[def], rhs[def]>> \o
                                 (IF Has(a.dest, def) THEN <<a.dest[def]>> ELSE <<>>)
                             s1 == addType(a.s, UnionTy(discriminants))
                         IN [s |-> s1, dest |-> Put(a.dest, def, lastType(s1))]
    IN F[Len(keys)]

\* the Proposition branch of computeRefinement
lowerPropositionAt(acc, refinement, sense, eq) ==
    LET s1 == IF ~sense /\ ~eq THEN addType(acc.s, NegationTy(refinement.discriminantTy))
              ELSE IF eq THEN addType(acc.s, BlockedTy)
              ELSE acc.s
        discriminantTy == IF (~sense /\ ~eq) \/ eq THEN lastType(s1) ELSE refinement.discriminantTy
        cs2 == IF eq
               THEN Append(acc.cs, [kind |-> "SingletonOrTopType",
                                    args |-> <<discriminantTy, refinement.discriminantTy>>,
                                    name |-> IF ~sense THEN "negated" ELSE ""])
               ELSE acc.cs
    IN IF Has(acc.refis, refinement.def)
       THEN LET s2 == addType(s1, IntersectionTy(<<discriminantTy, acc.refis[refinement.def]>>))
            IN RefAcc(s2, Put(acc.refis, refinement.def, lastType(s2)), cs2)
       ELSE RefAcc(s1, Put(acc.refis, refinement.def, discriminantTy), cs2)

\* a lowering that ignores eq
lowerPropositionNoEq(acc, refinement, sense, eq) == lowerPropositionAt(acc, refinement, sense, FALSE)

lowerProposition(acc, refinement, sense, eq) == lowerPropositionAt(acc, refinement, sense, eq)

RECURSIVE computeRefinement(_, _, _, _)
computeRefinement(acc, refinement, sense, eq) ==
    IF refinement.r = "None" THEN acc
    ELSE IF refinement.r = "Variadic" THEN
        LET F[i \in 0..Len(refinement.refinements)] ==
                IF i = 0 THEN acc
                ELSE computeRefinement(F[i - 1], refinement.refinements[i], sense, eq)
        IN F[Len(refinement.refinements)]
    ELSE IF refinement.r = "Negation" THEN
        computeRefinement(acc, refinement.refinement, ~sense, eq)
    ELSE IF refinement.r = "Conjunction" THEN
        IF sense THEN
            computeRefinement(computeRefinement(acc, refinement.lhs, sense, eq), refinement.rhs, sense, eq)
        ELSE
            LET l == computeRefinement(RefAcc(acc.s, EmptyMap, acc.cs), refinement.lhs, sense, eq)
                r == computeRefinement(RefAcc(l.s, EmptyMap, l.cs), refinement.rhs, sense, eq)
                u == unionRefinements(r.s, l.refis, r.refis, acc.refis)
            IN RefAcc(u.s, u.dest, r.cs)
    ELSE IF refinement.r = "Disjunction" THEN
        IF ~sense THEN
            computeRefinement(computeRefinement(acc, refinement.lhs, sense, eq), refinement.rhs, sense, eq)
        ELSE
            LET l == computeRefinement(RefAcc(acc.s, EmptyMap, acc.cs), refinement.lhs, sense, eq)
                r == computeRefinement(RefAcc(l.s, EmptyMap, l.cs), refinement.rhs, sense, eq)
                u == unionRefinements(r.s, l.refis, r.refis, acc.refis)
            IN RefAcc(u.s, u.dest, r.cs)
    ELSE IF refinement.r = "Equivalence" THEN
        computeRefinement(computeRefinement(acc, refinement.lhs, sense, TRUE), refinement.rhs, sense, TRUE)
    ELSE lowerProposition(acc, refinement, sense, eq)

\* The Cell of a DefId <<x, f, g>> has the field g and the parent <<x, f>>.
computeDiscriminantType(s, scope, def, discriminantTy) ==
    LET F[i \in 0..(Len(def) - 1)] ==
            IF i = 0 THEN [s |-> s, def |-> def, ty |-> discriminantTy]
            ELSE LET a == F[i - 1]
                     propName == a.def[Len(a.def)]
                     s1 == addType(a.s, TableTy(Put(EmptyMap, propName, a.ty), "Sealed"))
                 IN [s |-> s1, def |-> SubSeq(a.def, 1, Len(a.def) - 1), ty |-> lastType(s1)]
    IN F[Len(def) - 1]

\* The body of applyRefinements' loop over refinements: the discriminant d
\* computed for a definition is intersected with the type the definition
\* has in scope.
refineDefinitionNegated(d, scope) ==
    LET defTy == lookupDef(d.s, scope, d.def)
        s1 == IF defTy = 0 THEN ice(d.s, "Every DefId must map to a type!") ELSE d.s
        s2 == addType(s1, IntersectionTy(<<defTy, d.ty>>))
        s3 == addType(s2, NegationTy(lastType(s2)))
    IN setRefinement(s3, scope, d.def, lastType(s3))

\* a refinement written to the enclosing scope
refineDefinitionInParent(d, scope) ==
    LET defTy == lookupDef(d.s, scope, d.def)
        s1 == IF defTy = 0 THEN ice(d.s, "Every DefId must map to a type!") ELSE d.s
        s2 == addType(s1, IntersectionTy(<<defTy, d.ty>>))
        parent == d.s.scopes[scope].parent
    IN setRefinement(s2, IF parent = 0 THEN scope ELSE parent, d.def, lastType(s2))

refineDefinition(d, scope) ==
    LET defTy == lookupDef(d.s, scope, d.def)
        s1 == IF defTy = 0 THEN ice(d.s, "Every DefId must map to a type!") ELSE d.s
        s2 == addType(s1, IntersectionTy(<<defTy, d.ty>>))
    IN setRefinement(s2, scope, d.def, lastType(s2))

\* applyRefinements once computeRefinement has filled acc (refinements and
\* constraints).
applyComputedRefinements(acc, scope, location) ==
    LET keys == KeyOrder(DOMAIN acc.refis)
        F[i \in 0..Len(keys)] ==
            IF i = 0 THEN acc.s
            ELSE refineDefinition(
                     computeDiscriminantType(F[i - 1], scope, keys[i], acc.refis[keys[i]]), scope)
        G[i \in 0..Len(acc.cs)] ==
            IF i = 0 THEN F[Len(keys)]
            ELSE addConstraintC(G[i - 1], Constraint(Len(G[i - 1].constraints) + 1, scope, location,
                                                     acc.cs[i].kind, acc.cs[i].args, acc.cs[i].name))
    IN G[Len(acc.cs)]

applyRefinements(s, scope, location, refinement) ==
    IF refinement.r = "None" THEN s
    ELSE applyComputedRefinements(
             computeRefinement(RefAcc(s, EmptyMap, <<>>), refinement, TRUE, FALSE), scope, location)

(***************************************************************************)
(* Helpers of TypePack.h / TypeUtils.h that the builder calls.             *)
(***************************************************************************)
freshType(s, scope) == addType(s, FreeTy)

freshTypePack(s, scope) == addTypePack(s, Pk("FreePack", <<>>, 0))

\* first(tp): the first type of a pack, 0 if it has none.
RECURSIVE firstN(_, _, _)
firstN(s, tp, fuel) ==
    LET p == s.typePacks[followPack(s, tp)]
    IN IF p.tag = "Pack" THEN
            IF Len(p.head) > 0 THEN p.head[1]
            ELSE IF p.tail # 0 /\ fuel > 0 THEN firstN(s, p.tail, fuel - 1)
            ELSE 0
       ELSE IF p.tag = "Variadic" THEN p.head[1]
       ELSE 0

first(s, tp) == firstN(s, tp, Len(s.typePacks))

\* extendTypePack(arena, builtinTypes, pack, length): a TypePack value of
\* `length` head types where the pack can give them; a free pack is bound
\* to a new pack of fresh types.  ret = [head, tail].
RECURSIVE extendN(_, _, _, _, _)
extendN(s, pack, length, head, fuel) ==
    LET tp == followPack(s, pack)
        p == s.typePacks[tp]
        need == length - Len(head)
    IN IF p.tag = "Pack" THEN
            LET take == IF Len(p.head) < need THEN Len(p.head) ELSE need
                head1 == head \o SubSeq(p.head, 1, take)
            IN IF Len(head1) = length THEN
                    IF take = Len(p.head) THEN setRet(s, [head |-> head1, tail |-> p.tail])
                    ELSE LET s1 == addTypePack(s, Pk("Pack", SubSeq(p.head, take + 1, Len(p.head)), p.tail))
                         IN setRet(s1, [head |-> head1, tail |-> lastPack(s1)])
               ELSE IF p.tail # 0 /\ fuel > 0 THEN extendN(s, p.tail, length, head1, fuel - 1)
               ELSE setRet(s, [head |-> head1, tail |-> 0])
       ELSE IF p.tag = "Variadic" THEN
            setRet(s, [head |-> head \o [i \in 1..need |-> p.head[1]], tail |-> tp])
       ELSE IF p.tag = "FreePack" THEN
            LET s1 == freshTypePack(s, 0)
                newTail == lastPack(s1)
                F[i \in 0..need] == IF i = 0 THEN s1 ELSE freshType(F[i - 1], 0)
                s2 == F[need]
                fresh == [i \in 1..need |-> Len(s1.types) + i]
                s3 == emplacePack(s2, tp, Pk("Pack", fresh, newTail))
            IN setRet(s3, [head |-> head \o fresh, tail |-> 0])
       ELSE IF p.tag = "ErrorPack" THEN
            setRet(s, [head |-> head \o [i \in 1..need |-> errorRecoveryType], tail |-> tp])
       ELSE setRet(s, [head |-> head, tail |-> tp])

extendTypePack(s, pack, length) == extendN(s, pack, length, <<>>, Len(s.typePacks))

\* maybeSingleton(ty)
maybeSingleton(s, ty) ==
    LET t == s.types[follow(s, ty)]
    IN \/ t.tag = "Singleton"
       \/ /\ t.tag = "Union"
          /\ \E i \in DOMAIN t.parts : s.types[follow(s, t.parts[i])].tag = "Singleton"

\* getFallthrough(node) # nullptr: can execution run off the end of node?
RECURSIVE fallsThrough(_)
fallsThrough(node) ==
    IF node.k = "Block" THEN \A i \in DOMAIN node.body : fallsThrough(node.body[i])
    ELSE IF node.k = "If" THEN
        \/ fallsThrough(node.thenbody)
        \/ node.elsebody.k = "None"
        \/ fallsThrough(node.elsebody)
    ELSE node.k # "Return"

\* RecursionCounter: ++*count now, --*count when the function is left.
enter(s) == [s EXCEPT !.recursionCount = @ + 1]

\* a counter that is not restored
leaveDeeper(s) == s

leave(s) == [s EXCEPT !.recursionCount = @ - 1]

\* RecursionLimiter: a RecursionCounter that throws above the limit.
enterLimited(s) ==
    LET s1 == enter(s)
    IN IF ~s1.thrown /\ s1.limit > 0 /\ s1.recursionCount > s1.limit
       THEN [s1 EXCEPT !.thrown = TRUE,
                       !.log.overflows = Append(@, [count |-> s1.recursionCount,
                                                    limits |-> Len(s1.log.limits)])]
       ELSE s1

\* What a traversal leaves behind: the sizes of the arenas and of the list
\* of constraints, and the nodes the module's maps have an entry for.
Traversed(s) ==
    [scopes |-> Len(s.scopes), types |-> Len(s.types), typePacks |-> Len(s.typePacks),
     constraints |-> Len(s.constraints), astTypes |-> DOMAIN s.astTypes,
     astTypePacks |-> DOMAIN s.astTypePacks, astScopes |-> DOMAIN s.astScopes]

\* s0 is the builder where the limit is found reached, left the builder that
\* the function returns.
logLimit(s0, left, kind, node) ==
    IF s0.thrown THEN left
    ELSE [left EXCEPT !.log.limits =
              Append(@, [node |-> node.id, kind |-> kind, count |-> s0.recursionCount,
                         before |-> Traversed(s0), after |-> Traversed(left),
                         errorsBefore |-> s0.errors, errorsAfter |-> left.errors,
                         ret |-> left.ret, thrown |-> left.thrown])]

\* The module's maps.
setAstType(s, node, ty) == IF s.thrown THEN s ELSE [s EXCEPT !.astTypes = Put(@, node, ty)]

setAstTypePack(s, node, tp) == IF s.thrown THEN s ELSE [s EXCEPT !.astTypePacks = Put(@, node, tp)]

setAstExpectedType(s, node, ty) ==
    IF s.thrown THEN s ELSE [s EXCEPT !.astExpectedTypes = Put(@, node, ty)]

\* The record of the nodes handed to check, checkPack and checkLValue.
\* (The synthetic node checkLValue builds on its stack is no node of the AST.)
noteVisited(s, expr) ==
    IF s.thrown \/ "synthetic" \in DOMAIN expr THEN s
    ELSE [s EXCEPT !.log.visited = @ \cup {expr.id}]

(***************************************************************************)
(* The visitor.  The handlers call one another recursively.                *)
(***************************************************************************)
\* C++ runs the statements of a function in their order.  Where a handler
\* computes a chain of states, CASE <<s1, s2>> # <<>> -> e computes s1, then
\* s2, before e reads them; the guard is always true.

\* What the last call returned; a default while an exception unwinds.
rTy(s) == IF s.thrown THEN errorRecoveryType ELSE s.ret.ty
rRef(s) == IF s.thrown THEN NoRefinement ELSE s.ret.refinement
rTp(s) == IF s.thrown THEN errorRecoveryTypePack ELSE s.ret.tp
rRefs(s) == IF s.thrown THEN <<>> ELSE s.ret.refinements
rId(s) == IF s.thrown THEN errorRecoveryType ELSE s.ret
rPack(s) == IF s.thrown THEN [head |-> <<>>, tail |-> 0] ELSE s.ret
rSig(s) ==
    IF s.thrown THEN [signature |-> errorRecoveryType, signatureScope |-> 1, bodyScope |-> 1]
    ELSE s.ret

\* The member functions that recurse over the tree call each other through
\* their declarations; dispatch runs the body of the one that is called.
RECURSIVE dispatch(_, _, _, _, _, _)

check(s, scope, expr, expectedType, forceSingleton) ==
    dispatch("check", s, scope, expr, expectedType, forceSingleton)

checkPack(s, scope, expr, expectedTypes) ==
    dispatch("checkPack", s, scope, expr, expectedTypes, FALSE)

checkPackCall(s, scope, call) ==
    dispatch("checkPackCall", s, scope, call, <<>>, FALSE)

resolveType(s, scope, ty, inTypeArguments) ==
    dispatch("resolveType", s, scope, ty, <<>>, inTypeArguments)

visit(s, scope, stat) ==
    dispatch("visit", s, scope, stat, <<>>, FALSE)

visitBlockWithoutChildScope(s, scope, block) ==
    dispatch("visitBlockWithoutChildScope", s, scope, block, <<>>, FALSE)

isError(s, ty) == s.types[ty].tag = "Primitive" /\ s.types[ty].name = "error"

\* return arena.addType(...) and return arena.addTypePack(...)
retType(s) == setRet(s, lastType(s))

retPack(s) == setRet(s, lastPack(s))

\* One generic of createGenerics: the cached type of the name, or a new
\* GenericType that is cached; a.ret collects the [name, ty] pairs.
createGeneric(a, parent, name, useCache) ==
    IF useCache /\ Has(a.scopes[parent].typeAliasTypeParameters, name)
    THEN setRet(a, Append(a.ret, [name |-> name,
                                  ty |-> a.scopes[parent].typeAliasTypeParameters[name]]))
    ELSE With(addType(a, GenericTy(name)), LAMBDA s1 :
             IF s1.thrown THEN s1
             ELSE [s1 EXCEPT !.scopes[parent].typeAliasTypeParameters = Put(@, name, lastType(s1)),
                             !.ret = Append(a.ret, [name |-> name, ty |-> lastType(s1)])])

\* createGenerics(scope, generics, useCache): ret = <<[name, ty], ...>>
createGenerics(s, scope, generics, useCache) ==
    LET F[i \in 0..Len(generics)] ==
            IF i = 0 THEN setRet(s, <<>>)
            ELSE createGeneric(F[i - 1], s.scopes[scope].parent, generics[i], useCache)
    IN F[Len(generics)]

\* scope->privateTypeBindings[name] = TypeFun{g.ty}, for every generic
bindGenerics(s, scope, gens) ==
    IF s.thrown THEN s
    ELSE LET F[i \in 0..Len(gens)] ==
                 IF i = 0 THEN s.scopes[scope].privateTypeBindings
                 ELSE Put(F[i - 1], gens[i].name, TypeFun(<<>>, gens[i].ty))
         IN [s EXCEPT !.scopes[scope].privateTypeBindings = F[Len(gens)]]

\* The generics a state g has just created (g.ret) are bound in scope.
bindCreated(g, scope) == bindGenerics(g, scope, g.ret)

\* resolveType on the next type of a list: a.head collects the TypeIds.
resolveNext(a, scope, ty, inTypeArguments) ==
    With(resolveType(a.s, scope, ty, inTypeArguments), LAMBDA s1 :
         [s |-> s1, head |-> Append(a.head, s1.ret)])

resolveTypeList(s, scope, list, inTypeArguments) ==
    LET F[i \in 0..Len(list)] ==
            IF i = 0 THEN [s |-> s, head |-> <<>>]
            ELSE resolveNext(F[i - 1], scope, list[i], inTypeArguments)
    IN F[Len(list)]

\* arena->addTypePack(TypePack{head, tail}) of the types a list resolved to
addPackOf(a) == retPack(addTypePack(a.s, Pk("Pack", a.head, 0)))

\* resolveTypePack(scope, AstTypeList, inTypeArguments): ret = TypePackId
resolveTypePackList(s, scope, list, inTypeArguments) ==
    addPackOf(resolveTypeList(s, scope, list, inTypeArguments))

\* a reference that always leaves the expansion to an outer one
resolvePendingInArguments(a, scope, ty, inTypeArguments) ==
    With(addType(a.s, PendingTy(ty.name, a.head)), LAMBDA s2 : setRet(s2, lastType(s2)))

\* AstTypeReference with type parameters: a PendingExpansionType, and a
\* TypeAliasExpansion constraint unless the reference is a type argument.
resolvePending(a, scope, ty, inTypeArguments) ==
    With(addType(a.s, PendingTy(ty.name, a.head)), LAMBDA s2 :
         setRet(IF ~inTypeArguments
                THEN addConstraint(s2, scope, ty.id, "TypeAliasExpansion", <<lastType(s2)>>)
                ELSE s2,
                lastType(s2)))

resolveReference(s, scope, ty, inTypeArguments, alias) ==
    CASE alias.type = 0 -> setRet(s, errorRecoveryType)
      [] alias.type # 0 /\ Len(alias.typeParams) = 0 -> setRet(s, alias.type)
      [] OTHER -> resolvePending(resolveTypeList(s, scope, ty.parameters, TRUE),
                                 scope, ty, inTypeArguments)

\* AstTypeTable: a sealed table of the resolved properties.
resolveProp(a, scope, prop, inTypeArguments) ==
    With(resolveType(a.s, scope, prop.type, inTypeArguments), LAMBDA s1 :
         [s |-> s1, props |-> Put(a.props, prop.name, s1.ret)])

addTableOf(a) == retType(addType(a.s, TableTy(a.props, "Sealed")))

resolveTable(s, scope, ty, inTypeArguments) ==
    LET F[i \in 0..Len(ty.props)] ==
            IF i = 0 THEN [s |-> s, props |-> EmptyMap]
            ELSE resolveProp(F[i - 1], scope, ty.props[i], inTypeArguments)
    IN addTableOf(F[Len(ty.props)])

\* AstTypeFunction: generics live in a child scope of their own.
addFunctionOf(s3, argTypes) == retType(addType(s3, FunctionTy(argTypes, s3.ret)))

resolveReturnTypes(s2, signatureScope, ty, inTypeArguments) ==
    addFunctionOf(resolveTypePackList(s2, signatureScope, ty.returnTypes, inTypeArguments), s2.ret)

resolveSignature(s1, signatureScope, ty, inTypeArguments) ==
    resolveReturnTypes(resolveTypePackList(s1, signatureScope, ty.argTypes, inTypeArguments),
                       signatureScope, ty, inTypeArguments)

resolveGenerics(c, ty, inTypeArguments) ==
    resolveSignature(bindCreated(createGenerics(c, lastScope(c), ty.generics, FALSE), lastScope(c)),
                     lastScope(c), ty, inTypeArguments)

resolveFunction(s, scope, ty, inTypeArguments) ==
    IF Len(ty.generics) > 0
    THEN resolveGenerics(childScope(s, ty.id, scope), ty, inTypeArguments)
    ELSE resolveSignature(s, scope, ty, inTypeArguments)

\* AstTypeUnion and AstTypeIntersection
addPartsOf(a, k) ==
    retType(addType(a.s, IF k = "TypeUnion" THEN UnionTy(a.head) ELSE IntersectionTy(a.head)))

\* module->astResolvedTypes[ty] = result
setResolved(r, node) ==
    IF r.thrown THEN r ELSE [r EXCEPT !.astResolvedTypes = Put(@, node, r.ret)]

\* resolveType(scope, ty, inTypeArguments): ret = TypeId
resolveAstType(s, scope, ty, inTypeArguments) ==
    IF s.thrown THEN s
    ELSE setResolved(
        CASE ty.k = "TypeReference" ->
                 resolveReference(s, scope, ty, inTypeArguments, lookupType(s, scope, ty.name))
          [] ty.k = "TypeTable" -> resolveTable(s, scope, ty, inTypeArguments)
          [] ty.k = "TypeFunction" -> resolveFunction(s, scope, ty, inTypeArguments)
          [] ty.k = "TypeTypeof" -> With(check(s, scope, ty.expr, 0, FALSE), LAMBDA s1 : setRet(s1, rTy(s1)))
          [] ty.k \in {"TypeUnion", "TypeIntersection"} ->
                 addPartsOf(resolveTypeList(s, scope, ty.types, inTypeArguments), ty.k)
          [] ty.k = "TypeSingletonBool" ->
                 retType(addType(s, SingletonTy(IF ty.value THEN "true" ELSE "false")))
          [] ty.k = "TypeSingletonString" -> retType(addType(s, SingletonTy(ty.value)))
          [] OTHER -> setRet(s, errorRecoveryType),
        ty.id)

\* checkFunctionSignature.  Its local variables are the fields of a record f
\* that each part of the function extends; f.s is the builder.

\* signatureScope->returnType = returnType, the pack just added
setReturnType(s2, scope) ==
    IF s2.thrown THEN s2 ELSE [s2 EXCEPT !.scopes[scope].returnType = lastPack(s2)]

\* s1 is the builder after childScope(fn, parent): the return pack and the
\* scope of the body.
signatureScopes(s1, fn) ==
    With(setReturnType(freshTypePack(s1, lastScope(s1)), lastScope(s1)), LAMBDA s3 :
    With(childScope(s3, fn.body.id, lastScope(s1)), LAMBDA s4 :
         [s |-> s4, signatureScope |-> lastScope(s1), returnType |-> lastPack(s3),
          bodyScope |-> lastScope(s4)]))

\* Generics are created and bound, and then no expected type is used.
signatureGenerics(f, fn, expectedType) ==
    IF Len(fn.generics) > 0
    THEN [s |-> bindCreated(createGenerics(f.s, f.signatureScope, fn.generics, FALSE),
                            f.signatureScope),
          expectedType |-> 0, expectedFunction |-> 0] @@ f
    ELSE [expectedType |-> expectedType,
          expectedFunction |-> IF expectedType # 0 /\ f.s.types[expectedType].tag = "Function"
                               THEN expectedType ELSE 0] @@ f

\* expectedArgPack = extendTypePack(expectedFunction->argTypes, fn->args.size)
signatureExpected(f, fn) ==
    With(IF f.expectedFunction # 0
         THEN extendTypePack(f.s, f.s.types[f.expectedFunction].packs[1], Len(fn.args))
         ELSE setRet(f.s, [head |-> <<>>, tail |-> 0]), LAMBDA s6 :
         [s |-> s6, expectedArgPack |-> rPack(s6), argTypes |-> <<>>] @@ f)

\* One argument: a fresh type t (the last type of a1) is bound to the local,
bindArgument(a1, scope, name) == bind(a1, scope, LSym(name), lastType(a1))

\* recorded as the refinement of the local's definition,
refineArgument(a2, scope, name, t) ==
    With(getDefLocal(a2, name), LAMBDA def :
         IF def # NoDef
         THEN setRefinement(luauAssert(a2, def # NoDef, "checkFunctionSignature: def"), scope, def, t)
         ELSE luauAssert(a2, def # NoDef, "checkFunctionSignature: def"))

\* (an annotation that resolves to the error type gives a fresh type)
resolveAnnotation(b1, scope) ==
    IF isError(b1, follow(b1, rId(b1))) THEN retType(freshType(b1, scope)) ELSE b1

\* and constrained by the annotation, or by the expected argument type.
annotateArgument(a4, scope, local, t, i, expectedArgPack) ==
    IF local.annotation.k # "None" THEN
        With(resolveAnnotation(resolveType(a4, scope, local.annotation, FALSE), scope), LAMBDA b2 :
             addConstraint(b2, scope, local.annotation.id, "Subtype", <<t, b2.ret>>))
    ELSE IF i <= Len(expectedArgPack.head) THEN
        addConstraint(a4, scope, local.name, "Subtype", <<t, expectedArgPack.head[i]>>)
    ELSE a4

signatureArg(f, local, i) ==
    With(freshType(f.s, f.signatureScope), LAMBDA a1 :
         [s |-> annotateArgument(
                    refineArgument(bindArgument(a1, f.signatureScope, local.name),
                                   f.signatureScope, local.name, lastType(a1)),
                    f.signatureScope, local, lastType(a1), i, f.expectedArgPack),
          argTypes |-> Append(f.argTypes, lastType(a1))] @@ f)

signatureArgs(f, fn) ==
    LET A[i \in 0..Len(fn.args)] ==
            IF i = 0 THEN f ELSE signatureArg(A[i - 1], fn.args[i], i)
    IN A[Len(fn.args)]

\* The vararg pack of the signature and body scopes.
setVarargPack(s7, signatureScope, bodyScope, varargPack) ==
    IF s7.thrown THEN s7
    ELSE [s7 EXCEPT !.scopes[signatureScope].varargPack = varargPack,
                    !.scopes[bodyScope].varargPack = varargPack]

expectedVararg(f) ==
    IF f.expectedArgPack.tail # 0 /\ f.s.typePacks[f.expectedArgPack.tail].tag = "Variadic"
    THEN f.expectedArgPack.tail ELSE anyTypePack

signatureVararg(f, fn) ==
    IF fn.vararg
    THEN [s |-> setVarargPack(f.s, f.signatureScope, f.bodyScope, expectedVararg(f)),
          varargPack |-> expectedVararg(f)] @@ f
    ELSE With(addTypePack(f.s, Pk("Variadic", <<anyType>>, 0)), LAMBDA v :
              [s |-> setVarargPack(v, f.signatureScope, f.bodyScope, 0),
               varargPack |-> lastPack(v)] @@ f)

\* The return annotation, or the expected function's return pack, is what
\* the free return pack is bound to.
signatureReturn(f, fn) ==
    IF fn.hasReturn THEN
        With(resolveTypePackList(f.s, f.signatureScope, fn.returnAnnotation, FALSE), LAMBDA b1 :
             [s |-> emplacePack(luauAssert(b1, b1.typePacks[f.returnType].tag = "FreePack",
                                           "checkFunctionSignature: returnType is free"),
                                f.returnType, Pk("BoundPack", <<>>, b1.ret))] @@ f)
    ELSE IF f.expectedFunction # 0 THEN
        [s |-> emplacePack(f.s, f.returnType,
                           Pk("BoundPack", <<>>, f.s.types[f.expectedFunction].packs[2]))] @@ f
    ELSE f

addFunctionType(s10, returnType) == addType(s10, FunctionTy(lastPack(s10), returnType))

\* A free expected type is bound to the function's type.
bindExpected(s12, expectedType, ty) ==
    IF expectedType # 0 /\ s12.types[expectedType].tag = "Free"
    THEN emplaceType(s12, expectedType, BoundTy(ty))
    ELSE s12

signatureType(f, fn) ==
    With(addFunctionType(addTypePack(f.s, Pk("Pack", f.argTypes, f.varargPack)), f.returnType),
         LAMBDA s11 :
         setRet(bindExpected(setAstType(s11, fn.id, lastType(s11)), f.expectedType, lastType(s11)),
                [signature |-> lastType(s11), signatureScope |-> f.signatureScope,
                 bodyScope |-> f.bodyScope]))

\* ret = [signature, signatureScope, bodyScope]
checkFunctionSignature(s, parent, fn, expectedType) ==
    LET f1 == signatureScopes(childScope(s, fn.id, parent), fn)
        f2 == signatureGenerics(f1, fn, IF expectedType # 0 THEN follow(s, expectedType) ELSE 0)
        f3 == signatureExpected(f2, fn)
        f4 == signatureArgs(f3, fn)
        f5 == signatureVararg(f4, fn)
        f6 == signatureReturn(f5, fn)
    IN IF s.thrown THEN s
       ELSE CASE <<f1, f2, f3, f4, f5, f6>> # <<>> -> signatureType(f6, fn)

checkFunctionBody(s, scope, fn) ==
    LET s1 == visitBlockWithoutChildScope(s, scope, fn.body)
    IN CASE <<s1>> # <<>> -> IF fallsThrough(fn.body)
       THEN LET s2 == addTypePack(s1, Pk("Pack", <<>>, 0))
            IN addConstraint(s2, scope, fn.id, "PackSubtype", <<s2.scopes[scope].returnType, lastPack(s2)>>)
       ELSE s1

matchRequire(call) ==
    IF Len(call.args) = 1 /\ call.func.k = "Global" /\ call.func.name = "require"
    THEN call.args[1] ELSE NoNode

matchSetmetatable(call) ==
    Len(call.args) = 2 /\ call.func.k = "Global" /\ call.func.name = "setmetatable"

matchAssert(call) ==
    Len(call.args) >= 1 /\ call.func.k = "Global" /\ call.func.name = "assert"

NoTypeGuard == [matched |-> FALSE, isTypeof |-> FALSE, target |-> NoNode, type |-> ""]

matchTypeGuard(binary) ==
    LET swap == binary.right.k = "Call"
        left == IF swap THEN binary.right ELSE binary.left
        right == IF swap THEN binary.left ELSE binary.right
    IN IF binary.op \notin {"==", "~="} THEN NoTypeGuard
       ELSE IF right.k # "ConstantString" THEN NoTypeGuard
       ELSE IF left.k # "Call" THEN NoTypeGuard
       ELSE IF left.func.k # "Global" THEN NoTypeGuard
       ELSE IF left.func.name \notin {"type", "typeof"} THEN NoTypeGuard
       ELSE IF Len(left.args) # 1 THEN NoTypeGuard
       ELSE [matched |-> TRUE, isTypeof |-> left.func.name = "typeof",
             target |-> left.args[1], type |-> right.value]

flattenPack(s, scope, location, pack) ==
    LET refinement == IF Len(pack.refinements) > 0 THEN pack.refinements[1] ELSE NoRefinement
        f == first(s, pack.tp)
    IN IF s.thrown THEN s
       ELSE IF f # 0 THEN setRet(s, Inference(f, refinement))
       ELSE LET s1 == freshType(s, scope)
                typeResult == lastType(s1)
                s2 == freshTypePack(s1, scope)
                s3 == addTypePack(s2, Pk("Pack", <<typeResult>>, lastPack(s2)))
                s4 == addConstraint(s3, scope, location, "PackSubtype", <<pack.tp, lastPack(s3)>>)
            IN CASE <<s1, s2, s3, s4>> # <<>> -> setRet(s4, Inference(typeResult, refinement))

checkConstantString(s, scope, string, expectedType, forceSingleton) ==
    LET single == addType(s, SingletonTy(string.value))
        expectedTy == follow(s, expectedType)
    IN IF forceSingleton THEN setRet(single, Inference(lastType(single), NoRefinement))
       ELSE IF expectedType # 0 THEN
            IF s.types[expectedTy].tag \in {"Blocked", "PendingExpansion"} THEN
                LET s1 == addType(s, BlockedTy)
                    ty == lastType(s1)
                    s2 == addType(s1, SingletonTy(string.value))
                    s3 == addConstraint(s2, scope, string.id, "PrimitiveType",
                                        <<ty, expectedTy, lastType(s2), stringType>>)
                IN setRet(s3, Inference(ty, NoRefinement))
            ELSE IF maybeSingleton(s, expectedTy)
            THEN setRet(single, Inference(lastType(single), NoRefinement))
            ELSE setRet(s, Inference(stringType, NoRefinement))
       ELSE setRet(s, Inference(stringType, NoRefinement))

\* a check that never looks at the expected type
checkConstantBoolUnexpected(s, scope, boolExpr, expectedType, forceSingleton) ==
    IF forceSingleton
    THEN setRet(s, Inference(IF boolExpr.value THEN trueType ELSE falseType, NoRefinement))
    ELSE setRet(s, Inference(booleanType, NoRefinement))

checkConstantBool(s, scope, boolExpr, expectedType, forceSingleton) ==
    LET singletonType == IF boolExpr.value THEN trueType ELSE falseType
        expectedTy == follow(s, expectedType)
    IN IF forceSingleton THEN setRet(s, Inference(singletonType, NoRefinement))
       ELSE IF expectedType # 0 THEN
            IF s.types[expectedTy].tag \in {"Blocked", "PendingExpansion"} THEN
                LET s1 == addType(s, BlockedTy)
                    ty == lastType(s1)
                    s2 == addConstraint(s1, scope, boolExpr.id, "PrimitiveType",
                                        <<ty, expectedTy, singletonType, booleanType>>)
                IN setRet(s2, Inference(ty, NoRefinement))
            ELSE IF maybeSingleton(s, expectedTy)
            THEN setRet(s, Inference(singletonType, NoRefinement))
            ELSE setRet(s, Inference(booleanType, NoRefinement))
       ELSE setRet(s, Inference(booleanType, NoRefinement))

checkLocal(s, scope, local) ==
    LET def == getDef(s, local)
        byDef == IF def # NoDef THEN lookupDef(s, scope, def) ELSE 0
        resultTy == IF byDef # 0 THEN byDef ELSE lookup(s, scope, LSym(local.local))
    IN IF resultTy = 0 THEN setRet(s, Inference(errorRecoveryType, NoRefinement))
       ELSE IF def # NoDef THEN setRet(s, Inference(resultTy, proposition(def, truthyType)))
       ELSE setRet(s, Inference(resultTy, NoRefinement))

checkGlobal(s, scope, global) ==
    LET ty == lookup(s, scope, GSym(global.name))
    IN IF ty # 0 THEN setRet(s, Inference(ty, NoRefinement))
       ELSE setRet(reportError(s, global.id, "UnknownSymbol"),
                   Inference(errorRecoveryType, NoRefinement))

checkIndexName(s, scope, indexName) ==
    LET s1 == check(s, scope, indexName.expr, 0, FALSE)
        obj == rTy(s1)
        s2 == freshType(s1, scope)
        result == lastType(s2)
        def == getDef(s2, indexName)
        ty == IF def # NoDef THEN lookupDef(s2, scope, def) ELSE 0
        s3 == IF def # NoDef THEN setRefinement(s2, scope, def, result) ELSE s2
        s4 == addType(s3, TableTy(Put(EmptyMap, indexName.index, result), "Free"))
        s5 == With(s4, LAMBDA s4_ : addConstraint(s4_, scope, indexName.expr.id, "Subtype", <<obj, lastType(s4_)>>))
    IN CASE <<s1, s2, s3, s4, s5>> # <<>> -> IF def # NoDef /\ ty # 0 THEN setRet(s2, Inference(ty, proposition(def, truthyType)))
       ELSE IF def # NoDef THEN setRet(s5, Inference(result, proposition(def, truthyType)))
       ELSE setRet(s5, Inference(result, NoRefinement))

checkIndexExpr(s, scope, indexExpr) ==
    LET s1 == check(s, scope, indexExpr.expr, 0, FALSE)
        obj == rTy(s1)
        s2 == check(s1, scope, indexExpr.index, 0, FALSE)
        indexType == rTy(s2)
        s3 == freshType(s2, scope)
        result == lastType(s3)
        s4 == addType(s3, IndexedTableTy(EmptyMap, "Free", indexType, result))
        s5 == addConstraint(s4, scope, indexExpr.expr.id, "Subtype", <<obj, lastType(s4)>>)
    IN CASE <<s1, s2, s3, s4, s5>> # <<>> -> setRet(s5, Inference(result, NoRefinement))

checkUnary(s, scope, unary) ==
    LET s1 == check(s, scope, unary.expr, 0, FALSE)
        operandType == rTy(s1)
        refinement == rRef(s1)
        s2 == addType(s1, BlockedTy)
        resultType == lastType(s2)
        s3 == addConstraint(s2, scope, unary.id, "Unary", <<operandType, resultType>>)
    IN CASE <<s1, s2, s3>> # <<>> -> IF unary.op = "not" THEN setRet(s3, Inference(resultType, negation(refinement)))
       ELSE setRet(s3, Inference(resultType, NoRefinement))

\* The discriminant of type(x) == "name" / typeof(x) == "name".
typeGuardDiscriminant(s, typeguard) ==
    LET typeFun == lookupType(s, 1, typeguard.type)
        ty == follow(s, typeFun.type)
        ctv == s.types[ty]
    IN IF typeguard.type = "nil" THEN nilType
       ELSE IF typeguard.type = "string" THEN stringType
       ELSE IF typeguard.type = "number" THEN numberType
       ELSE IF typeguard.type = "boolean" THEN threadType
       ELSE IF typeguard.type = "table" THEN tableType
       ELSE IF typeguard.type = "function" THEN functionType
       ELSE IF typeguard.type = "userdata" THEN neverType
       ELSE IF ~typeguard.isTypeof /\ typeguard.type = "vector" THEN neverType
       ELSE IF ~typeguard.isTypeof THEN neverType
       ELSE IF typeFun.type # 0 /\ Len(typeFun.typeParams) = 0 THEN
            IF \/ ctv.tag # "Class"
               \/ (IF s.negatedClassTypes THEN ctv.parts[1] = classType ELSE ctv.parts[1] = 0)
            THEN ty ELSE neverType
       ELSE neverType

\* ret = [leftType, rightType, refinement]
checkBinary(s, scope, binary, expectedType) ==
    LET typeguard == matchTypeGuard(binary)
        R(x, l, r, refinement) == setRet(x, [leftType |-> l, rightType |-> r, refinement |-> refinement])
    IN IF binary.op \in {"and", "or"} THEN
            LET s1 == check(s, scope, binary.left, expectedType, FALSE)
                leftType == rTy(s1)
                leftRefinement == rRef(s1)
                s2 == childScope(s1, binary.right.id, scope)
                rightScope == lastScope(s2)
                s3 == applyRefinements(s2, rightScope, binary.right.id,
                          IF binary.op = "and" THEN leftRefinement ELSE negation(leftRefinement))
                s4 == check(s3, rightScope, binary.right, expectedType, FALSE)
            IN CASE <<s1, s2, s3, s4>> # <<>> -> R(s4, leftType, rTy(s4),
                 IF binary.op = "and" THEN conjunction(leftRefinement, rRef(s4))
                 ELSE disjunction(leftRefinement, rRef(s4)))
       ELSE IF typeguard.matched THEN
            LET s1 == check(s, scope, binary.left, 0, FALSE)
                leftType == rTy(s1)
                s2 == check(s1, scope, binary.right, 0, FALSE)
                rightType == rTy(s2)
                def == getDef(s2, typeguard.target)
                prop == proposition(def, typeGuardDiscriminant(s2, typeguard))
            IN CASE <<s1, s2>> # <<>> -> IF def = NoDef THEN R(s2, leftType, rightType, NoRefinement)
               ELSE IF binary.op = "==" THEN R(s2, leftType, rightType, prop)
               ELSE R(s2, leftType, rightType, negation(prop))
       ELSE IF binary.op \in {"==", "~="} THEN
            LET s1 == check(s, scope, binary.left, expectedType, TRUE)
                leftType == rTy(s1)
                s2 == check(s1, scope, binary.right, expectedType, TRUE)
                rightType == rTy(s2)
                ldef == getDef(s2, binary.left)
                rdef == getDef(s2, binary.right)
                l0 == IF ldef # NoDef THEN proposition(ldef, rightType) ELSE NoRefinement
                r0 == IF rdef # NoDef THEN proposition(rdef, leftType) ELSE NoRefinement
                leftRefinement == IF binary.op = "~=" THEN negation(l0) ELSE l0
                rightRefinement == IF binary.op = "~=" THEN negation(r0) ELSE r0
            IN CASE <<s1, s2>> # <<>> -> R(s2, leftType, rightType, equivalence(leftRefinement, rightRefinement))
       ELSE LET s1 == check(s, scope, binary.left, expectedType, FALSE)
                leftType == rTy(s1)
                s2 == check(s1, scope, binary.right, expectedType, FALSE)
            IN CASE <<s1, s2>> # <<>> -> R(s2, leftType, rTy(s2), NoRefinement)

binaryTypes(s1) ==
    IF s1.thrown
    THEN [leftType |-> errorRecoveryType, rightType |-> errorRecoveryType,
          refinement |-> NoRefinement]
    ELSE s1.ret

binaryResult(s2, b, scope, binary) ==
    setRet(addConstraint(s2, scope, binary.id, "Binary",
                         <<b.leftType, b.rightType, lastType(s2)>>),
           Inference(lastType(s2), b.refinement))

checkBinaryExpr(s, scope, binary, expectedType) ==
    With(checkBinary(s, scope, binary, expectedType), LAMBDA s1 :
         binaryResult(addType(s1, BlockedTy), binaryTypes(s1), scope, binary))

\* A child scope of scope for node, with the refinement applied in it.
refinedScope(s, scope, node, location, refinement) ==
    With(childScope(s, node, scope), LAMBDA s1 :
         applyRefinements(s1, lastScope(s1), location, refinement))

\* ret = Inference of the type added last.
inferLast(s) == setRet(s, Inference(lastType(s), NoRefinement))

ifCondition(s1, scope, ifElse) ==
    With(check(s1, scope, ifElse.condition, 0, FALSE), LAMBDA s2 :
         [s |-> s2, refinement |-> rRef(s2)])

ifThen(f, scope, ifElse, expectedType) ==
    With(refinedScope(f.s, scope, ifElse.trueExpr.id, ifElse.trueExpr.id, f.refinement), LAMBDA s4 :
    With(check(s4, lastScope(s4), ifElse.trueExpr, expectedType, FALSE), LAMBDA s5 :
         [s |-> s5, thenType |-> rTy(s5)] @@ f))

ifOtherwise(f, scope, ifElse, expectedType) ==
    With(refinedScope(f.s, scope, ifElse.falseExpr.id, ifElse.falseExpr.id,
                      negation(f.refinement)), LAMBDA s7 :
    With(check(s7, lastScope(s7), ifElse.falseExpr, expectedType, FALSE), LAMBDA s8 :
         [s |-> s8, elseType |-> rTy(s8)] @@ f))

ifResult(f, expectedType) ==
    IF expectedType # 0 THEN setRet(f.s, Inference(expectedType, NoRefinement))
    ELSE inferLast(addType(f.s, UnionTy(<<f.thenType, f.elseType>>)))

checkIfElse(s, scope, ifElse, expectedType) ==
    LET f1 == ifCondition(childScope(s, ifElse.condition.id, scope), scope, ifElse)
        f2 == ifThen(f1, scope, ifElse, expectedType)
        f3 == ifOtherwise(f2, scope, ifElse, expectedType)
    IN CASE <<f1, f2, f3>> # <<>> -> ifResult(f3, expectedType)

checkTypeAssertion(s, scope, typeAssert) ==
    LET s1 == check(s, scope, typeAssert.expr, 0, FALSE)
        s2 == resolveType(s1, scope, typeAssert.annotation, FALSE)
    IN CASE <<s1, s2>> # <<>> -> setRet(s2, Inference(rId(s2), NoRefinement))

\* createIndexer of check(AstExprTable*): ty is the table under construction
setIndexer(b, ty, indexType, resultType) ==
    emplaceType(b, ty, [b.types[ty] EXCEPT !.parts = <<indexType, resultType>>])

ensureIndexer(s, scope, ty) ==
    IF s.types[ty].parts = <<>>
    THEN With(freshType(s, scope), LAMBDA a :
         With(freshType(a, scope), LAMBDA b : setIndexer(b, ty, lastType(a), lastType(b))))
    ELSE s

subtypeIndexer(s1, scope, ty, location, currentIndexType, currentResultType) ==
    addConstraint(addConstraint(s1, scope, location, "Subtype",
                                <<s1.types[ty].parts[1], currentIndexType>>),
                  scope, location, "Subtype", <<s1.types[ty].parts[2], currentResultType>>)

createIndexer(s, scope, ty, location, currentIndexType, currentResultType) ==
    IF s.thrown THEN s
    ELSE subtypeIndexer(ensureIndexer(s, scope, ty), scope, ty, location,
                        currentIndexType, currentResultType)

\* The type the items of a table are checked against: the indexer's result
\* type of the expected table, else the type of the first item.
expectedIndexResultType(s, expectedType) ==
    IF expectedType = 0 THEN 0
    ELSE IF s.types[follow(s, expectedType)].tag = "Table"
            /\ s.types[follow(s, expectedType)].parts # <<>>
    THEN s.types[follow(s, expectedType)].parts[2]
    ELSE 0

tableItem(a, a1, scope, ty, item) ==
    [s |-> createIndexer(a1, scope, ty, item.id, numberType, rTy(a1)),
     pinnedIndexResultType |->
         IF a.pinnedIndexResultType = 0 THEN rTy(a1) ELSE a.pinnedIndexResultType]

checkTableItem(a, scope, ty, item, annotatedIndexResultType) ==
    tableItem(a, check(a.s, scope, item,
                       IF annotatedIndexResultType # 0 THEN annotatedIndexResultType
                       ELSE a.pinnedIndexResultType, FALSE),
              scope, ty, item)

checkTableItems(s1, scope, expr, annotatedIndexResultType) ==
    LET F[i \in 0..Len(expr.items)] ==
            IF i = 0 THEN [s |-> s1, pinnedIndexResultType |-> 0]
            ELSE LET a == F[i - 1]
                 IN CASE <<a>> # <<>> ->
                    checkTableItem(a, scope, lastType(s1), expr.items[i],
                                   annotatedIndexResultType)
    IN setRet(F[Len(expr.items)].s, Inference(lastType(s1), NoRefinement))

checkTable(s, scope, expr, expectedType) ==
    IF s.thrown THEN s
    ELSE checkTableItems(addType(s, TableTy(EmptyMap, "Unsealed")), scope, expr,
                         expectedIndexResultType(s, expectedType))

\* the AstExprFunction branch of check(scope, expr, ...)
generalize(s3, scope, a, sig, startCheckpoint, endCheckpoint) ==
    With(addConstraint(s3, scope, a.id, "Generalization", <<lastType(s3), sig.signature>>),
         LAMBDA s4 : setRet(addDependencies(s4, lastConstraint(s4),
                                forEachConstraint(s4, startCheckpoint, endCheckpoint)),
                            Inference(lastType(s3), NoRefinement)))

checkSignedBody(s1, scope, a, startCheckpoint) ==
    With(checkFunctionBody(s1, rSig(s1).bodyScope, a), LAMBDA s2 :
         generalize(addType(s2, BlockedTy), scope, a, rSig(s1), startCheckpoint, Checkpoint(s2)))

checkFunctionExpr(s, scope, a, expectedType) ==
    With(checkFunctionSignature(s, scope, a, expectedType), LAMBDA s1 :
         checkSignedBody(s1, scope, a, Checkpoint(s)))

\* the AstExprError branch of check(scope, expr, ...)
checkError(s, scope, err) ==
    LET F[i \in 0..Len(err.expressions)] ==
            IF i = 0 THEN s ELSE check(F[i - 1], scope, err.expressions[i], 0, FALSE)
    IN setRet(F[Len(err.expressions)], Inference(errorRecoveryType, NoRefinement))

\* The pack of an expression that yields several values, cut to its first.
checkFirst(p, scope, expr) ==
    flattenPack(p, scope, expr.id, InferencePack(rTp(p), rRefs(p)))

checkUnknown(a, scope) == inferLast(freshType(a, scope))

\* The end of check(scope, expr, ...): the result is recorded in astTypes
\* and, when there is one, the expected type in astExpectedTypes.
expectType(r2, node, expectedType) ==
    IF expectedType # 0 THEN setAstExpectedType(r2, node, expectedType) ELSE r2

checked(r, expr, expectedType) ==
    leave(expectType(setAstType(luauAssert(r, rTy(r) # 0, "check: result.ty"), expr.id, rTy(r)),
                     expr.id, expectedType))

checkKind(s0, scope, expr, expectedType, forceSingleton) ==
    CASE expr.k = "Group" -> check(s0, scope, expr.expr, expectedType, forceSingleton)
      [] expr.k = "ConstantString" ->
           checkConstantString(s0, scope, expr, expectedType, forceSingleton)
      [] expr.k = "ConstantNumber" -> setRet(s0, Inference(numberType, NoRefinement))
      [] expr.k = "ConstantBool" ->
           checkConstantBool(s0, scope, expr, expectedType, forceSingleton)
      [] expr.k = "ConstantNil" -> setRet(s0, Inference(nilType, NoRefinement))
      [] expr.k = "Local" -> checkLocal(s0, scope, expr)
      [] expr.k = "Global" -> checkGlobal(s0, scope, expr)
      [] expr.k = "Varargs" -> checkFirst(checkPack(s0, scope, expr, <<>>), scope, expr)
      [] expr.k = "Call" -> checkFirst(checkPackCall(s0, scope, expr), scope, expr)
      [] expr.k = "Function" -> checkFunctionExpr(s0, scope, expr, expectedType)
      [] expr.k = "IndexName" -> checkIndexName(s0, scope, expr)
      [] expr.k = "IndexExpr" -> checkIndexExpr(s0, scope, expr)
      [] expr.k = "Table" -> checkTable(s0, scope, expr, expectedType)
      [] expr.k = "Unary" -> checkUnary(s0, scope, expr)
      [] expr.k = "Binary" -> checkBinaryExpr(s0, scope, expr, expectedType)
      [] expr.k = "IfElse" -> checkIfElse(s0, scope, expr, expectedType)
      [] expr.k = "TypeAssertion" -> checkTypeAssertion(s0, scope, expr)
      [] expr.k = "Error" -> checkError(s0, scope, expr)
      [] OTHER -> checkUnknown(luauAssert(s0, FALSE, "check: unknown expression"), scope)

checkLimited(s0, scope, expr, expectedType, forceSingleton) ==
    IF s0.recursionCount >= s0.limit
    THEN logLimit(s0, leave(setRet(reportCodeTooComplex(s0, expr.id),
                                   Inference(errorRecoveryType, NoRefinement))),
                  "check", expr)
    ELSE With(checkKind(s0, scope, expr, expectedType, forceSingleton),
              LAMBDA r : checked(r, expr, expectedType))

checkExpr(s, scope, expr, expectedType, forceSingleton) ==
    IF s.thrown THEN s
    ELSE checkLimited(noteVisited(enter(s), expr), scope, expr, expectedType, forceSingleton)

\* checkPack(scope, AstArray<AstExpr*>, expectedTypes): ret = InferencePack
checkPackHead(a, a1) == [s |-> a1, head |-> Append(a.head, rTy(a1)), tail |-> a.tail]

checkPackTail(a, a1) == [s |-> a1, head |-> a.head, tail |-> rTp(a1)]

checkPackItem(a, scope, exprs, expectedTypes, i) ==
    IF i < Len(exprs)
    THEN checkPackHead(a, check(a.s, scope, exprs[i],
                                IF i <= Len(expectedTypes) THEN expectedTypes[i] ELSE 0, FALSE))
    ELSE checkPackTail(a, checkPack(a.s, scope, exprs[i],
                                    IF i <= Len(expectedTypes)
                                    THEN SubSeq(expectedTypes, i, Len(expectedTypes)) ELSE <<>>))

packOf(a) ==
    IF a.head = <<>> /\ a.tail # 0 THEN setRet(a.s, InferencePack(a.tail, <<>>))
    ELSE With(addTypePack(a.s, Pk("Pack", a.head, a.tail)),
              LAMBDA s1 : setRet(s1, InferencePack(lastPack(s1), <<>>)))

checkPackArray(s, scope, exprs, expectedTypes) ==
    LET F[i \in 0..Len(exprs)] ==
            IF i = 0 THEN [s |-> s, head |-> <<>>, tail |-> 0]
            ELSE LET a == F[i - 1]
                 IN CASE <<a>> # <<>> -> checkPackItem(a, scope, exprs, expectedTypes, i)
    IN IF s.thrown THEN s ELSE packOf(F[Len(exprs)])

\* checkPack(scope, AstExpr*, expectedTypes): ret = InferencePack
packOfType(a) ==
    With(addTypePack(a, Pk("Pack", <<rTy(a)>>, 0)),
         LAMBDA b : setRet(b, InferencePack(lastPack(b), <<>>)))

checkPackKind(s0, scope, expr, expectedTypes) ==
    IF expr.k = "Call" THEN checkPackCall(s0, scope, expr)
    ELSE IF expr.k = "Varargs" THEN
        IF s0.scopes[scope].varargPack # 0
        THEN setRet(s0, InferencePack(s0.scopes[scope].varargPack, <<>>))
        ELSE setRet(s0, InferencePack(errorRecoveryTypePack, <<>>))
    ELSE packOfType(check(s0, scope, expr,
                          IF Len(expectedTypes) > 0 THEN expectedTypes[1] ELSE 0, FALSE))

checkedPack(r, expr) ==
    leave(setAstTypePack(luauAssert(r, rTp(r) # 0, "checkPack: result.tp"), expr.id, rTp(r)))

checkPackLimited(s0, scope, expr, expectedTypes) ==
    IF s0.recursionCount >= s0.limit
    THEN logLimit(s0, leave(setRet(reportCodeTooComplex(s0, expr.id),
                                   InferencePack(errorRecoveryTypePack, <<>>))),
                  "checkPack", expr)
    ELSE With(checkPackKind(s0, scope, expr, expectedTypes), LAMBDA r : checkedPack(r, expr))

checkPackExpr(s, scope, expr, expectedTypes) ==
    IF s.thrown THEN s
    ELSE checkPackLimited(noteVisited(enter(s), expr), scope, expr, expectedTypes)

\* A read past the end of a vector: the build either faults or yields the
\* value ub.
undefinedRead(s) == IF s.ub = 0 THEN [s EXCEPT !.thrown = TRUE] ELSE s

\* The discriminants of a call's arguments: for each of exprArgs a Blocked
\* type and a proposition when the argument has a definition.
addDiscriminant(a, s1, def) ==
    IF def # NoDef
    THEN [s |-> s1,
          returnRefinements |-> Append(a.returnRefinements, proposition(def, lastType(s1))),
          discriminantTypes |-> Append(a.discriminantTypes, lastType(s1))]
    ELSE [a EXCEPT !.discriminantTypes = Append(@, 0)]

callDiscriminants(s, exprArgs) ==
    LET F[i \in 0..Len(exprArgs)] ==
            IF i = 0 THEN [s |-> s, returnRefinements |-> <<>>, discriminantTypes |-> <<>>]
            ELSE With(F[i - 1], LAMBDA a :
                      addDiscriminant(a, addType(a.s, BlockedTy), getDef(a.s, exprArgs[i])))
    IN F[Len(exprArgs)]

\* The callee of checkPack(scope, AstExprCall*): f.s is the builder, the other
\* fields of f are the function's local variables.
setOriginalCallType(s1, node) ==
    IF s1.thrown THEN s1 ELSE [s1 EXCEPT !.astOriginalCallTypes = Put(@, node, rTy(s1))]

callFunction(d, scope, call) ==
    With(check(d.s, scope, call.func, 0, FALSE), LAMBDA s1 :
         [s |-> setOriginalCallType(s1, call.func.id),
          returnRefinements |-> d.returnRefinements,
          startCheckpoint |-> Checkpoint(d.s),
          fnType |-> rTy(s1),
          fnEndCheckpoint |-> Checkpoint(s1)])

\* expectedFunctionType: (expectedArgPack) -> expectedRetPack, both fresh.
expectedFunction(s3, scope) ==
    With(freshTypePack(s3, scope), LAMBDA s4 :
         addType(s4, FunctionTy(lastPack(s3), lastPack(s4))))

instantiate(s5, scope, call, fnType) ==
    With(addType(s5, BlockedTy), LAMBDA s6 :
         addConstraint(s6, scope, call.id, "Instantiation", <<lastType(s6), fnType>>))

\* extractArgs without the dependencies on the callee's constraints
extractArgsAlone(s7, scope, call, expectedFunctionType, startCheckpoint, fnEndCheckpoint) ==
    addConstraint(s7, scope, call.id, "Subtype", <<lastType(s7), expectedFunctionType>>)

extractArgs(s7, scope, call, expectedFunctionType, startCheckpoint, fnEndCheckpoint) ==
    With(addConstraint(s7, scope, call.id, "Subtype", <<lastType(s7), expectedFunctionType>>),
         LAMBDA s8 : addDependencies(s8, lastConstraint(s8),
                                     forEachConstraint(s8, startCheckpoint, fnEndCheckpoint)))

instantiateExpected(f, s3, s5, s7, scope, call) ==
    With(extractArgs(s7, scope, call, lastType(s5), f.startCheckpoint, f.fnEndCheckpoint),
         LAMBDA s9 : [s |-> s9,
                      expectedArgPack |-> lastPack(s3),
                      instantiation |-> lastConstraint(s7),
                      extractArgsConstraint |-> lastConstraint(s9)] @@ f)

callExpectation(f, scope, call) ==
    With(freshTypePack(f.s, scope), LAMBDA s3 :
    With(expectedFunction(s3, scope), LAMBDA s5 :
         instantiateExpected(f, s3, s5, instantiate(s5, scope, call, f.fnType), scope, call)))

needTail(exprArgs) == Len(exprArgs) > 0 /\ exprArgs[Len(exprArgs)].k \in {"Call", "Varargs"}

callExpected(f, exprArgs) ==
    With(extendTypePack(f.s, f.expectedArgPack,
                        IF needTail(exprArgs) THEN Len(exprArgs) - 1 ELSE Len(exprArgs)),
         LAMBDA s10 : [s |-> s10, expectedArgs |-> rPack(s10), argCheckpoint |-> Checkpoint(s10),
                       args |-> <<>>, argTail |-> 0, argumentRefinements |-> <<>>] @@ f)

\* The argument loop of checkPack(scope, AstExprCall*).
selfArgument(a, scope, node) ==
    IF Has(a.s.astTypes, node)
    THEN [a EXCEPT !.args = Append(@, a.s.astTypes[node])]
    ELSE With(freshType(a.s, scope), LAMBDA s1 :
              [a EXCEPT !.s = s1, !.args = Append(@, lastType(s1))])

headArgument(a, s1) ==
    [a EXCEPT !.s = s1, !.args = Append(@, rTy(s1)),
              !.argumentRefinements = Append(@, rRef(s1))]

tailArgument(a, s1) ==
    [a EXCEPT !.s = s1, !.argTail = rTp(s1), !.argumentRefinements = @ \o rRefs(s1)]

callArgument(a, scope, call, exprArgs, i) ==
    IF i = 1 /\ call.self THEN selfArgument(a, scope, exprArgs[1].id)
    ELSE IF i < Len(exprArgs) \/ exprArgs[i].k \notin {"Call", "Varargs"}
    THEN headArgument(a, check(a.s, scope, exprArgs[i],
                               IF i <= Len(a.expectedArgs.head) THEN a.expectedArgs.head[i] ELSE 0,
                               FALSE))
    ELSE tailArgument(a, checkPack(a.s, scope, exprArgs[i], <<>>))

callArguments(f, scope, call, exprArgs) ==
    LET F[i \in 0..Len(exprArgs)] ==
            IF i = 0 THEN f
            ELSE LET a == F[i - 1]
                 IN CASE <<a>> # <<>> -> callArgument(a, scope, call, exprArgs, i)
    IN F[Len(exprArgs)]

\* the dependency recorded the wrong way round: extractArgs waits for the arguments
callDependenciesBackwards(f) ==
    [s |-> addDependencies(f.s, f.extractArgsConstraint,
                           forEachConstraint(f.s, f.argCheckpoint, Checkpoint(f.s))),
     argEndCheckpoint |-> Checkpoint(f.s)] @@ f

callDependencies(f) ==
    [s |-> addDependencyToAll(f.s, forEachConstraint(f.s, f.argCheckpoint, Checkpoint(f.s)),
                              f.extractArgsConstraint),
     argEndCheckpoint |-> Checkpoint(f.s)] @@ f

\* what a lookup of the call's first argument, a local, gives in scope
bindingOf(s, scope, call) ==
    IF call.args # <<>> /\ call.args[1].k = "Local"
    THEN lookup(s, scope, LSym(call.args[1].local)) ELSE 0

refinementOf(s, scope, call) ==
    IF call.args # <<>> /\ getDef(s, call.args[1]) # NoDef
    THEN lookupDef(s, scope, getDef(s, call.args[1])) ELSE 0

callEntry(s, f, call, scope, fcc, result) ==
    [call |-> call.id, node |-> call, scope |-> scope,
     startCheckpoint |-> f.startCheckpoint, fnEndCheckpoint |-> f.fnEndCheckpoint,
     argCheckpoint |-> f.argCheckpoint, argEndCheckpoint |-> f.argEndCheckpoint,
     instantiation |-> f.instantiation, extractArgs |-> f.extractArgsConstraint, fcc |-> fcc,
     args |-> f.args, argTail |-> f.argTail, result |-> result,
     binding |-> bindingOf(s, scope, call), refinement |-> refinementOf(s, scope, call)]

logCall(s, entry) ==
    IF s.thrown THEN s ELSE [s EXCEPT !.log.calls = Append(@, entry)]

\* setmetatable(target, mt)
metatableArgs(f) ==
    IF f.argTail # 0 /\ Len(f.args) < 2
    THEN extendTypePack(f.s, f.argTail, 2 - Len(f.args))
    ELSE setRet(f.s, [head |-> <<>>, tail |-> 0])

\* argTailPack.head[0] of an empty vector is an out-of-bounds read
metatableOf(m2, args, argTailPack, complete) ==
    addType(IF complete THEN m2 ELSE undefinedRead(m2),
            MetatableTy(args[1], IF Len(args) > 1 THEN args[2]
                                 ELSE IF complete THEN argTailPack.head[1]
                                 ELSE m2.ub))

metatableType(m1, args) ==
    metatableOf(luauAssert(m1, Len(args) + Len(rPack(m1).head) = 2, "setmetatable: two arguments"),
                args, rPack(m1), Len(args) + Len(rPack(m1).head) = 2)

refineAnnotated(b, scope, def, ty) ==
    IF def # NoDef /\ b.types[ty].tag # "Free" THEN setRefinement(b, scope, def, ty) ELSE b

refineLocal(b, scope, def, ty) ==
    IF def # NoDef THEN setRefinement(b, scope, def, ty) ELSE b

bindMetatable(m3, scope, targetExpr) ==
    IF targetExpr.k = "Local"
    THEN refineLocal(bind(m3, scope, LSym(targetExpr.local), lastType(m3)), scope,
                     getDefLocal(m3, targetExpr.local), lastType(m3))
    ELSE m3

metatableResult(m5, f, scope, call) ==
    setRet(logCall(m5, callEntry(m5, f, call, scope, 0, lastPack(m5))),
           InferencePack(lastPack(m5), <<variadic(f.returnRefinements)>>))

callSetmetatable(f, scope, call) ==
    With(bindMetatable(metatableType(metatableArgs(f), f.args), scope, call.args[1]),
         LAMBDA m4 : metatableResult(addTypePack(m4, Pk("Pack", <<lastType(m4)>>, 0)),
                                     f, scope, call))

\* every other call
\* The definitions a refinement refines (the keys computeRefinement leaves in
\* *refis) with the discriminant of each.
discriminantsOf(s, refinement) ==
    computeRefinement(RefAcc(s, EmptyMap, <<>>), refinement, TRUE, FALSE).refis

refinedTypes(s, scope, defs) == [def \in defs |-> lookupDef(s, scope, def)]

logAssertion(s, applied, scope, call, refinement) ==
    IF s.thrown THEN applied
    ELSE LET discriminants == discriminantsOf(s, refinement)
         IN [applied EXCEPT !.log.assertions =
                 Append(@, [call |-> call.id, scope |-> scope, refinement |-> refinement,
                            discriminants |-> discriminants,
                            before |-> refinedTypes(s, scope, DOMAIN discriminants),
                            after |-> refinedTypes(applied, scope, DOMAIN discriminants),
                            own |-> {def \in DOMAIN discriminants :
                                         Has(applied.scopes[scope].dcrRefinements, def)},
                            refinedBefore |-> s.scopes[scope].dcrRefinements,
                            refinedAfter |-> applied.scopes[scope].dcrRefinements,
                            start |-> Checkpoint(s), end |-> Checkpoint(applied),
                            thrown |-> applied.thrown])]

callAssertion(f, scope, call) ==
    IF matchAssert(call) /\ f.argumentRefinements # <<>>
    THEN logAssertion(f.s, applyRefinements(f.s, scope, call.args[1].id, f.argumentRefinements[1]),
                      scope, call, f.argumentRefinements[1])
    ELSE f.s

functionCallResult(c4, f, scope, call, rets) ==
    setRet(logCall(addDependencies(c4, lastConstraint(c4),
                                   forEachConstraint(c4, f.fnEndCheckpoint, f.argEndCheckpoint)),
                   callEntry(c4, f, call, scope, lastConstraint(c4), rets)),
           InferencePack(rets, <<variadic(f.returnRefinements)>>))

functionCall(c2, f, scope, call) ==
    With(addTypePack(c2, Pk("Pack", f.args, f.argTail)), LAMBDA c3 :
         functionCallResult(addConstraint(c3, scope, call.func.id, "FunctionCall",
                                          <<f.fnType, lastPack(c3), lastPack(c2)>>),
                            f, scope, call, lastPack(c2)))

callOther(f, scope, call) ==
    functionCall(addTypePack(callAssertion(f, scope, call), Pk("BlockedPack", <<>>, 0)),
                 f, scope, call)

\* checkPack(scope, AstExprCall*): ret = InferencePack
checkPackExprCall(s, scope, call) ==
    LET noSelf == call.self /\ call.func.k # "IndexName"
        exprArgs == (IF call.self /\ ~noSelf THEN <<call.func.expr>> ELSE <<>>) \o call.args
        d == callDiscriminants(IF noSelf THEN ice(s, "method call expression has no 'self'") ELSE s,
                               exprArgs)
        f1 == callFunction(d, scope, call)
        f2 == callExpectation(f1, scope, call)
        f3 == callExpected(f2, exprArgs)
        f4 == callArguments(f3, scope, call, exprArgs)
        f5 == callDependencies(f4)
    IN IF s.thrown THEN s
       ELSE CASE <<d, f1, f2, f3, f4, f5>> # <<>> ->
            IF matchSetmetatable(call) THEN callSetmetatable(f5, scope, call)
            ELSE callOther(f5, scope, call)

\* The walk of checkLValue down name.a.b: the symbol at the root, and the
\* segments and IndexName nodes from the root outwards (after std::reverse).
RECURSIVE lvalueChain(_)
lvalueChain(e) ==
    IF e.k = "Global"
    THEN [ok |-> TRUE, sym |-> GSym(e.name), isLocal |-> FALSE, root |-> e.id,
          segments |-> <<>>, exprs |-> <<>>]
    ELSE IF e.k = "Local"
    THEN [ok |-> TRUE, sym |-> LSym(e.local), isLocal |-> TRUE, root |-> e.id,
          segments |-> <<>>, exprs |-> <<>>]
    ELSE IF e.k = "IndexName"
    THEN LET r == lvalueChain(e.expr)
         IN [r EXCEPT !.segments = Append(@, e.index), !.exprs = Append(@, e.id)]
    ELSE [ok |-> FALSE, sym |-> GSym(""), isLocal |-> FALSE, root |-> "",
          segments |-> <<>>, exprs |-> <<>>]

\* The AstExprIndexName that checkLValue builds on its stack for t["k"].
syntheticIndexName(indexExpr) ==
    [k |-> "IndexName", id |-> "synthetic " \o indexExpr.id, expr |-> indexExpr.expr,
     index |-> indexExpr.index.value, synthetic |-> TRUE]

\* checkLValue(scope, expr): ret = TypeId
viaCheck(s0, scope, expr) ==
    With(check(s0, scope, expr, 0, FALSE), LAMBDA c : setRet(c, rTy(c)))

setPropOf(s2, scope, location, subjectType, propTy, segments) ==
    addConstraintC(s2, Constraint(Len(s2.constraints) + 1, scope, location, "SetProp",
                                  <<lastType(s2), subjectType, propTy>>, segments))

\* f.s is the builder, the other fields of f are checkLValue's local variables.
lvalueStart(s1, scope, expr0, chain, subjectType) ==
    With(addType(s1, BlockedTy), LAMBDA s2 :
         [s |-> setPropOf(s2, scope, expr0.id, subjectType, lastType(s1), chain.segments),
          propTy |-> lastType(s1), updatedType |-> lastType(s2),
          prevSegmentTy |-> lastType(s2)])

hasProp(a2, scope, location, segmentTy, prevSegmentTy, segment) ==
    addConstraintC(a2, Constraint(Len(a2.constraints) + 1, scope, location, "HasProp",
                                  <<segmentTy, prevSegmentTy>>, segment))

lvalueSegment(a, scope, expr0, node, segment) ==
    With(addType(a.s, BlockedTy), LAMBDA a1 :
         [a EXCEPT !.s = hasProp(setAstType(a1, node, lastType(a1)), scope, expr0.id,
                                 lastType(a1), a.prevSegmentTy, segment),
                   !.prevSegmentTy = lastType(a1)])

lvalueSegments(f, scope, expr0, chain) ==
    LET F[i \in 0..Len(chain.segments)] ==
            IF i = 0 THEN f
            ELSE LET a == F[i - 1]
                 IN CASE <<a>> # <<>> ->
                    lvalueSegment(a, scope, expr0, chain.exprs[i], chain.segments[i])
    IN F[Len(chain.segments)]

refineSymbol(s6, symbolScope, chain, updatedType) ==
    refineLocal(s6, symbolScope,
                IF chain.isLocal THEN getDefLocal(s6, chain.sym[2]) ELSE NoDef, updatedType)

\* a target that leaves the symbol as it is bound
lvalueUnbound(f, expr, chain, symbolScope) ==
    setAstType(setAstType(f.s, expr.id, f.prevSegmentTy), chain.root, f.updatedType)

lvalueBind(f, expr, chain, symbolScope) ==
    refineSymbol(bind(setAstType(setAstType(f.s, expr.id, f.prevSegmentTy),
                                 chain.root, f.updatedType),
                      symbolScope, chain.sym, f.updatedType),
                 symbolScope, chain, f.updatedType)

lvalueOf(s0, scope, expr0, expr, chain, lookupResult) ==
    IF lookupResult.ty = 0 THEN viaCheck(s0, scope, expr)
    ELSE With(lvalueSegments(
                  lvalueStart(freshType(luauAssert(s0, chain.segments # <<>>,
                                                   "checkLValue: segments"), scope),
                              scope, expr0, chain, lookupResult.ty),
                  scope, expr0, chain),
              LAMBDA f : setRet(lvalueBind(f, expr, chain, lookupResult.scope), f.propTy))

lvalue(s0, scope, expr0, expr) ==
    IF expr.k \notin {"IndexExpr", "IndexName"} THEN viaCheck(s0, scope, expr)
    ELSE IF ~lvalueChain(expr).ok THEN viaCheck(s0, scope, expr)
    ELSE lvalueOf(s0, scope, expr0, expr, lvalueChain(expr),
                  lookupEx(s0, scope, lvalueChain(expr).sym))

checkLValue(s, scope, expr0) ==
    IF s.thrown THEN s
    ELSE lvalue(noteVisited(s, expr0), scope, expr0,
                IF expr0.k = "IndexExpr" /\ expr0.index.k = "ConstantString"
                THEN syntheticIndexName(expr0) ELSE expr0)

\* checkLValues(scope, exprs): ret = TypePackId
lvalueAppend(a, s1) == [s |-> s1, types |-> Append(a.types, rId(s1))]

checkLValues(s, scope, exprs) ==
    LET F[i \in 0..Len(exprs)] ==
            IF i = 0 THEN [s |-> s, types |-> <<>>]
            ELSE LET a == F[i - 1]
                 IN CASE <<a>> # <<>> -> lvalueAppend(a, checkLValue(a.s, scope, exprs[i]))
    IN With(F[Len(exprs)], LAMBDA a : retPack(addTypePack(a.s, Pk("Pack", a.types, 0))))

(***************************************************************************)
(* Statements.                                                             *)
(***************************************************************************)
\* moduleResolver->resolveModuleInfo and getModule: the modules that resolve
\* are the globals named in Modules.
Modules == {"M", "N"}

\* module->exportedTypeBindings of a module that resolves
exportedTypeBindingsOf(module) ==
    IF module = "M" THEN Put(Put(EmptyMap, "T", TypeFun(<<>>, numberType)), "U", TypeFun(<<>>, stringType))
    ELSE Put(EmptyMap, "T", TypeFun(<<>>, booleanType))

resolveModule(expr) == IF expr.k = "Global" /\ expr.name \in Modules THEN expr.name ELSE ""

\* the first loop of visit(AstStatLocal*): the annotations
localAnnotation(a, s1) == [s |-> s1, varTypes |-> Append(a.varTypes, rId(s1))]

localAnnotations(s, scope, local) ==
    LET F[i \in 0..Len(local.vars)] ==
            IF i = 0 THEN [s |-> s, varTypes |-> <<>>]
            ELSE LET a == F[i - 1]
                 IN CASE <<a>> # <<>> -> IF local.vars[i].annotation.k # "None"
                    THEN localAnnotation(a, resolveType(a.s, scope, local.vars[i].annotation, FALSE))
                    ELSE [a EXCEPT !.varTypes = Append(@, 0)]
    IN F[Len(local.vars)]

\* the tail of a pack-producing last value: fill varTypes[i..] from exprPack
fillVar(a, scope, j, i, packTypes) ==
    IF a.varTypes[j] # 0 THEN a
    ELSE IF j - i < Len(packTypes.head)
    THEN [a EXCEPT !.varTypes[j] = packTypes.head[j - i + 1]]
    ELSE With(freshType(a.s, scope), LAMBDA f :
              [s |-> f, varTypes |-> [a.varTypes EXCEPT ![j] = lastType(f)]])

fillVars(s1, scope, varTypes, i) ==
    LET F[j \in (i - 1)..Len(varTypes)] ==
            IF j = i - 1 THEN [s |-> s1, varTypes |-> varTypes]
            ELSE LET a == F[j - 1]
                 IN CASE <<a>> # <<>> -> fillVar(a, scope, j, i, rPack(s1))
    IN F[Len(varTypes)]

tailSubtype(a, scope, local, i, exprPack) ==
    With(addTypePack(a.s, Pk("Pack", SubSeq(a.varTypes, i, Len(a.varTypes)), 0)), LAMBDA s2 :
         [s |-> addConstraint(s2, scope, local.id, "PackSubtype", <<exprPack, lastPack(s2)>>),
          varTypes |-> a.varTypes])

localTail(s, scope, local, varTypes, i, exprPack) ==
    tailSubtype(fillVars(extendTypePack(s, exprPack, Len(varTypes) - (i - 1)),
                         scope, varTypes, i),
                scope, local, i, exprPack)

\* the second loop of visit(AstStatLocal*): the values
localNil(a, scope, i) ==
    IF i > Len(a.varTypes) THEN [a EXCEPT !.s = undefinedRead(a.s)]
    ELSE IF a.varTypes[i] = 0
    THEN With(freshType(a.s, scope), LAMBDA f : [a EXCEPT !.s = f, !.varTypes[i] = lastType(f)])
    ELSE a

localValueUnchecked(a, s1, scope, local, i) ==
    [s |-> s1,
     varTypes |-> IF i <= Len(a.varTypes) /\ a.varTypes[i] = 0
                  THEN [a.varTypes EXCEPT ![i] = rTy(s1)] ELSE a.varTypes,
     firstValueType |-> IF i = 1 THEN rTy(s1) ELSE a.firstValueType]

localValue(a, s1, scope, local, i) ==
    [s |-> IF i <= Len(a.varTypes) /\ a.varTypes[i] # 0
           THEN addConstraint(s1, scope, local.id, "Subtype", <<rTy(s1), a.varTypes[i]>>)
           ELSE s1,
     varTypes |-> IF i <= Len(a.varTypes) /\ a.varTypes[i] = 0
                  THEN [a.varTypes EXCEPT ![i] = rTy(s1)] ELSE a.varTypes,
     firstValueType |-> IF i = 1 THEN rTy(s1) ELSE a.firstValueType]

localPack(a, s1, scope, local, i) ==
    IF i <= Len(local.vars)
    THEN With(localTail(s1, scope, local, a.varTypes, i, rTp(s1)), LAMBDA b :
              [s |-> b.s, varTypes |-> b.varTypes, firstValueType |-> a.firstValueType])
    ELSE [a EXCEPT !.s = s1]

hasAnnotation(local, i) == i <= Len(local.vars) /\ local.vars[i].annotation.k # "None"

localStep(a, scope, local, i) ==
    IF local.values[i].k = "ConstantNil" THEN localNil(a, scope, i)
    ELSE IF i # Len(local.values) \/ local.values[i].k \notin {"Call", "Varargs"}
    THEN With(check(a.s, scope, local.values[i],
                    IF hasAnnotation(local, i) THEN a.varTypes[i] ELSE 0, FALSE),
              LAMBDA s1 : localValue(a, s1, scope, local, i))
    ELSE With(checkPack(a.s, scope, local.values[i],
                        IF hasAnnotation(local, i)
                        THEN SubSeq(a.varTypes, i, Len(a.varTypes)) ELSE <<>>),
              LAMBDA s1 : localPack(a, s1, scope, local, i))

localValues(s, scope, local, varTypes0) ==
    LET F[i \in 0..Len(local.values)] ==
            IF i = 0 THEN [s |-> s, varTypes |-> varTypes0, firstValueType |-> 0]
            ELSE LET a == F[i - 1]
                 IN CASE <<a>> # <<>> -> localStep(a, scope, local, i)
    IN F[Len(local.values)]

\* the binding loop of visit(AstStatLocal*)
localBinding(a1, scope, l, ty) ==
    With(bind(a1, scope, LSym(l), ty), LAMBDA a2 :
         refineLocal(a2, scope, getDefLocal(a2, l), ty))

bindFresh(f, scope, l) == localBinding(f, scope, l, lastType(f))

localBindings(s, scope, local, varTypes) ==
    LET F[i \in 0..Len(local.vars)] ==
            IF i = 0 THEN s
            ELSE LET a == F[i - 1]
                 IN CASE <<a>> # <<>> ->
                    IF varTypes[i] = 0
                    THEN bindFresh(freshType(a, scope), scope, local.vars[i].name)
                    ELSE localBinding(a, scope, local.vars[i].name, varTypes[i])
    IN F[Len(local.vars)]

\* the require loop of visit(AstStatLocal*)
importModule(a, scope, name, require) ==
    IF require.k = "None" THEN a
    ELSE IF resolveModule(require) = "" \/ a.thrown THEN a
    ELSE [a EXCEPT !.scopes[scope].importedTypeBindings =
                       Put(@, name, exportedTypeBindingsOf(resolveModule(require)))]

\* a loop that looks at the first initializer only
localRequiresFirst(s, scope, local) ==
    IF local.values = <<>> \/ local.vars = <<>> \/ local.values[1].k # "Call" THEN s
    ELSE importModule(s, scope, local.vars[1].name, matchRequire(local.values[1]))

localRequires(s, scope, local) ==
    LET m == IF Len(local.values) < Len(local.vars) THEN Len(local.values) ELSE Len(local.vars)
        F[i \in 0..m] ==
            IF i = 0 THEN s
            ELSE IF local.values[i].k # "Call" THEN F[i - 1]
            ELSE importModule(F[i - 1], scope, local.vars[i].name, matchRequire(local.values[i]))
    IN F[m]

\* local t = {} and local t = setmetatable(...) name the type of the value.
namesType(local, firstValueType) ==
    /\ Len(local.vars) = 1 /\ Len(local.values) = 1 /\ firstValueType # 0
    /\ \/ local.values[1].k = "Table"
       \/ /\ local.values[1].k = "Call" /\ local.values[1].func.k = "Global"
          /\ local.values[1].func.name = "setmetatable"

nameLocal(b, scope, local) ==
    IF namesType(local, b.firstValueType)
    THEN addNameConstraint(b.s, scope, local.values[1].id, b.firstValueType, local.vars[1].name)
    ELSE b.s

\* s is the builder before the statement, visited the builder after it.
logLocal(s, visited, scope, local) ==
    IF visited.thrown THEN visited
    ELSE LET sc == visited.scopes[scope]
             def(i) == getDefLocal(visited, local.vars[i].name)
         IN [visited EXCEPT !.log.locals =
                 Append(@, [stat |-> local.id, node |-> local, scope |-> scope,
                            start |-> Checkpoint(s), end |-> Checkpoint(visited),
                            defs |-> [i \in DOMAIN local.vars |-> def(i)],
                            bindings |-> [i \in DOMAIN local.vars |->
                                             IF Has(sc.bindings, LSym(local.vars[i].name))
                                             THEN sc.bindings[LSym(local.vars[i].name)] ELSE 0],
                            refinements |-> [i \in DOMAIN local.vars |->
                                                IF def(i) # NoDef /\ Has(sc.dcrRefinements, def(i))
                                                THEN sc.dcrRefinements[def(i)] ELSE 0],
                            imported |-> sc.importedTypeBindings,
                            importedBefore |-> s.scopes[scope].importedTypeBindings])]

visitLocal(s, scope, local) ==
    With(localAnnotations(s, scope, local), LAMBDA a :
    With(localValues(a.s, scope, local, a.varTypes), LAMBDA b :
         logLocal(s, localRequires(localBindings(nameLocal(b, scope, local), scope, local,
                                                 b.varTypes),
                                   scope, local),
                  scope, local)))

\* visit(scope, AstStatBlock*)
visitBlock(s, scope, block) ==
    With(childScope(s, block.id, scope), LAMBDA s1 :
         visitBlockWithoutChildScope(s1, lastScope(s1), block))

\* inferNumber of visit(AstStatFor*)
inferNumber(s, scope, expr) ==
    IF expr.k = "None" THEN s
    ELSE With(check(s, scope, expr, 0, FALSE), LAMBDA s1 :
              addConstraint(s1, scope, expr.id, "Subtype", <<rTy(s1), numberType>>))

forAnnotation(s, scope, for_) ==
    IF for_.var.annotation.k # "None"
    THEN resolveType(s, scope, for_.var.annotation, FALSE) ELSE s

forBody(s3, for_) ==
    visitBlock(bind(s3, lastScope(s3), LSym(for_.var.name), numberType), lastScope(s3),
               for_.body)

visitFor(s, scope, for_) ==
    LET s1 == inferNumber(forAnnotation(s, scope, for_), scope, for_.from)
        s2 == inferNumber(s1, scope, for_.to)
        s3 == inferNumber(s2, scope, for_.step)
    IN CASE <<s1, s2, s3>> # <<>> -> forBody(childScope(s3, for_.id, scope), for_)

\* f.s is the builder, the other fields of f are the local variables of
\* visit(AstStatForIn*).
forInValues(s1, scope, forIn) ==
    With(checkPackArray(s1, scope, forIn.values, <<>>), LAMBDA s2 :
         [s |-> s2, loopScope |-> lastScope(s1), iterator |-> rTp(s2), variableTypes |-> <<>>])

forInVariable(a, var) ==
    With(freshType(a.s, a.loopScope), LAMBDA a1 :
         [a EXCEPT !.s = localBinding(a1, a.loopScope, var, lastType(a1)),
                   !.variableTypes = Append(@, lastType(a1))])

forInVariables(f, forIn) ==
    LET F[i \in 0..Len(forIn.vars)] ==
            IF i = 0 THEN f
            ELSE LET a == F[i - 1]
                 IN CASE <<a>> # <<>> -> forInVariable(a, forIn.vars[i].name)
    IN F[Len(forIn.vars)]

iterable(f, forIn) ==
    With(addTypePack(f.s, Pk("FreePack", <<>>, 0)), LAMBDA s3 :
    With(addTypePack(s3, Pk("Pack", f.variableTypes, lastPack(s3))), LAMBDA s4 :
         addConstraint(s4, f.loopScope, forIn.id, "Iterable", <<f.iterator, lastPack(s4)>>)))

visitForIn(s, scope, forIn) ==
    LET f1 == forInValues(childScope(s, forIn.id, scope), scope, forIn)
        f2 == forInVariables(f1, forIn)
    IN CASE <<f1, f2>> # <<>> -> visitBlock(iterable(f2, forIn), f2.loopScope, forIn.body)

\* visit(s1's newest scope, block)
visitIn(s1, block) == visitBlock(s1, lastScope(s1), block)

visitWhile(s, scope, while_) ==
    With(check(s, scope, while_.condition, 0, FALSE), LAMBDA s1 :
         visitIn(childScope(s1, while_.id, scope), while_.body))

\* the locals that the statements of a block declare (local x, local function x)
bodyLocals(block) ==
    UNION {IF block.body[i].k = "LocalStat"
           THEN {block.body[i].vars[j].name : j \in DOMAIN block.body[i].vars}
           ELSE IF block.body[i].k = "LocalFunction" THEN {block.body[i].name}
           ELSE {} : i \in DOMAIN block.body}

logRepeat(s3, repeat, repeatScope) ==
    IF s3.thrown THEN s3
    ELSE [s3 EXCEPT !.log.repeats =
                        Append(@, [repeat |-> repeat.id, scope |-> repeatScope,
                                   bodyLocals |-> bodyLocals(repeat.body)])]

repeatCondition(s2, repeatScope, repeat) ==
    logRepeat(check(s2, repeatScope, repeat.condition, 0, FALSE), repeat, repeatScope)

visitRepeat(s, scope, repeat) ==
    With(childScope(s, repeat.id, scope), LAMBDA s1 :
    With(visitBlock(s1, lastScope(s1), repeat.body), LAMBDA s2 :
         repeatCondition(s2, lastScope(s1), repeat)))

\* The Generalization constraint of a function statement: it depends on the
\* constraints added since start.
\* a Generalization constraint that does not wait for the first constraint of the body
generalizationAfterFirst(s5, constraintScope, location, generalizedType, signature, start) ==
    addConstraintC(s5, [Constraint(Len(s5.constraints) + 1, constraintScope, location,
                                   "Generalization", <<generalizedType, signature>>, "")
                        EXCEPT !.deps = forEachConstraint(s5, start + 1, Checkpoint(s5))])

generalization(s5, constraintScope, location, generalizedType, signature, start) ==
    addConstraintC(s5, [Constraint(Len(s5.constraints) + 1, constraintScope, location,
                                   "Generalization", <<generalizedType, signature>>, "")
                        EXCEPT !.deps = forEachConstraint(s5, start, Checkpoint(s5))])

constraintScopeOf(sig) ==
    IF sig.signatureScope # 0 THEN sig.signatureScope ELSE sig.bodyScope

logFunction(s6, scope, function, fnTy, sig, start, end) ==
    IF s6.thrown THEN s6
    ELSE [s6 EXCEPT !.log.functions =
                        Append(@, [function |-> function.id, name |-> function.name, scope |-> scope,
                                   head |-> fnTy, signature |-> sig.signature, start |-> start,
                                   end |-> end, generalization |-> lastConstraint(s6)])]

localFunctionBody(s4, scope, function, fnTy, sig) ==
    With(checkFunctionBody(s4, sig.bodyScope, function.func), LAMBDA s5 :
         logFunction(generalization(s5, constraintScopeOf(sig), function.name, fnTy, sig.signature,
                                    Checkpoint(s4)),
                     scope, function, fnTy, sig, Checkpoint(s4), Checkpoint(s5)))

localFunctionSignature(s3, scope, function, fnTy) ==
    localFunctionBody(bind(s3, rSig(s3).bodyScope, LSym(function.name), rSig(s3).signature),
                      scope, function, fnTy, rSig(s3))

localFunctionType(s, scope, function) ==
    addType(luauAssert(s, lookup(s, scope, LSym(function.name)) = 0,
                       "visit(AstStatLocalFunction*): distinct Symbol"), BlockedTy)

visitLocalFunction(s, scope, function) ==
    With(localFunctionType(s, scope, function), LAMBDA s1 :
    With(checkFunctionSignature(bind(s1, scope, LSym(function.name), lastType(s1)),
                                scope, function.func, 0),
         LAMBDA s3 : localFunctionSignature(s3, scope, function, lastType(s1))))

\* function name() where name is a local that is already bound
redefineLocal(a1, scope, sym, generalizedType, def) ==
    With(bind(luauAssert(a1, def # NoDef, "visit(AstStatFunction*): def"), scope, sym,
              generalizedType),
         LAMBDA a3 : IF def # NoDef THEN setRefinement(a3, scope, def, generalizedType)
                     ELSE undefinedRead(a3))

functionLocal(s2, scope, name, sym, generalizedType, existingFunctionTy) ==
    IF existingFunctionTy # 0
    THEN redefineLocal(addConstraint(s2, scope, name.id, "Subtype",
                                     <<generalizedType, existingFunctionTy>>),
                       scope, sym, generalizedType, getDefLocal(s2, name.local))
    ELSE bind(s2, scope, sym, generalizedType)

functionIndexName(a, scope, name, generalizedType) ==
    [s |-> addConstraint(a, scope, name.id, "Subtype", <<rId(a), generalizedType>>),
     generalizedType |-> generalizedType]

\* ret = [s, generalizedType]
functionName(s2, scope, name, sym, generalizedType, existingFunctionTy) ==
    IF name.k = "Local"
    THEN [s |-> bind(functionLocal(s2, scope, name, sym, generalizedType, existingFunctionTy),
                     rSig(s2).bodyScope, sym, rSig(s2).signature),
          generalizedType |-> generalizedType]
    ELSE IF name.k = "Global"
    THEN [s |-> bind(IF existingFunctionTy = 0
                     THEN ice(s2, "prepopulateGlobalScope did not populate a global name")
                     ELSE s2,
                     rSig(s2).bodyScope, sym, rSig(s2).signature),
          generalizedType |-> existingFunctionTy]
    ELSE IF name.k = "IndexName"
    THEN functionIndexName(checkLValue(s2, scope, name), scope, name, generalizedType)
    ELSE IF name.k = "Error" THEN [s |-> s2, generalizedType |-> errorRecoveryType]
    ELSE [s |-> s2, generalizedType |-> generalizedType]

functionBody(n, function, sig, start) ==
    generalization(checkFunctionBody(IF n.generalizedType = 0
                                     THEN ice(n.s, "generalizedType == nullptr") ELSE n.s,
                                     sig.bodyScope, function.func),
                   constraintScopeOf(sig), function.name.id, n.generalizedType,
                   sig.signature, start)

symbolOf(name) == IF name.k = "Local" THEN LSym(name.local) ELSE GSym(name.name)

functionSignature(s2, scope, function, generalizedType, start) ==
    With(functionName(s2, scope, function.name, symbolOf(function.name), generalizedType,
                      lookup(s2, scope, symbolOf(function.name))),
         LAMBDA n : functionBody(n, function, rSig(s2), start))

visitFunction(s, scope, function) ==
    With(addType(s, BlockedTy), LAMBDA s1 :
    With(checkFunctionSignature(s1, scope, function.func, 0), LAMBDA s2 :
         functionSignature(s2, scope, function, lastType(s1), Checkpoint(s1))))

\* for (TypeId ty : scope->returnType): the head types of a pack and its tails
RECURSIVE packTypesN(_, _, _)
packTypesN(s, tp, fuel) ==
    LET p == s.typePacks[followPack(s, tp)]
    IN IF p.tag # "Pack" THEN <<>>
       ELSE IF p.tail # 0 /\ fuel > 0 THEN p.head \o packTypesN(s, p.tail, fuel - 1)
       ELSE p.head

returnPack(s1, scope, ret, returnType) ==
    addConstraint(s1, scope, ret.id, "PackSubtype", <<rTp(s1), returnType>>)

visitReturn(s, scope, ret) ==
    returnPack(checkPackArray(s, scope, ret.list,
                              packTypesN(s, s.scopes[scope].returnType, Len(s.typePacks))),
               scope, ret, s.scopes[scope].returnType)

\* The types the values of an assignment are expected to have: those of the
\* variables that are not free.
expectedTypesOf(s2) ==
    [i \in 1..Len(rPack(s2).head) |->
        IF s2.types[follow(s2, rPack(s2).head[i])].tag = "Free" THEN 0
        ELSE follow(s2, rPack(s2).head[i])]

assignValues(s2, scope, assign, varPackId) ==
    With(checkPackArray(s2, scope, assign.values, expectedTypesOf(s2)), LAMBDA s3 :
         addConstraint(s3, scope, assign.id, "PackSubtype", <<rTp(s3), varPackId>>))

visitAssign(s, scope, assign) ==
    With(checkLValues(s, scope, assign.vars), LAMBDA s1 :
         assignValues(extendTypePack(s1, rId(s1), Len(assign.values)), scope, assign, rId(s1)))

compoundResult(s3, scope, assign, varId, valueTy) ==
    addConstraint(addConstraint(s3, scope, assign.id, "Binary",
                                <<varId, valueTy, lastType(s3)>>),
                  scope, assign.id, "Subtype", <<lastType(s3), varId>>)

visitCompoundAssign(s, scope, assign) ==
    With(checkLValue(s, scope, assign.var), LAMBDA s1 :
    With(check(s1, scope, assign.value, 0, FALSE), LAMBDA s2 :
         compoundResult(addType(s2, BlockedTy), scope, assign, rId(s1), rTy(s2))))

\* s is the builder before the branch's scope is made, refined the builder
\* after applyRefinements on that scope.
logBranch(s, refined, scope, ifStatement, branch, body, refinement) ==
    IF s.thrown THEN refined
    ELSE LET s1 == childScope(s, body.id, scope)
             discriminants == discriminantsOf(s1, refinement)
         IN [refined EXCEPT !.log.branches =
                 Append(@, [stat |-> ifStatement.id, branch |-> branch, body |-> body.id,
                            scope |-> lastScope(s1), parent |-> scope,
                            fresh |-> lastScope(s1) > Len(s.scopes),
                            refinement |-> refinement, discriminants |-> discriminants,
                            before |-> refinedTypes(s1, lastScope(s1), DOMAIN discriminants),
                            after |-> refinedTypes(refined, lastScope(s1), DOMAIN discriminants),
                            own |-> {def \in DOMAIN discriminants :
                                         Has(refined.scopes[lastScope(s1)].dcrRefinements, def)},
                            thrown |-> refined.thrown])]

ifElseBody(s5, scope, ifStatement, refinement) ==
    IF ifStatement.elsebody.k # "None"
    THEN With(logBranch(s5, refinedScope(s5, scope, ifStatement.elsebody.id, ifStatement.condition.id,
                                         negation(refinement)),
                        scope, ifStatement, "else", ifStatement.elsebody, negation(refinement)),
              LAMBDA s7 : visit(s7, lastScope(s7), ifStatement.elsebody))
    ELSE s5

ifThenBody(s2, scope, ifStatement) ==
    With(logBranch(s2, refinedScope(s2, scope, ifStatement.thenbody.id, ifStatement.condition.id,
                                    rRef(s2)),
                   scope, ifStatement, "then", ifStatement.thenbody, rRef(s2)),
         LAMBDA s4 : ifElseBody(visitBlock(s4, lastScope(s4), ifStatement.thenbody),
                                scope, ifStatement, rRef(s2)))

visitIf(s, scope, ifStatement) ==
    With(childScope(s, ifStatement.condition.id, scope), LAMBDA s1 :
    With(check(s1, lastScope(s1), ifStatement.condition, 0, FALSE), LAMBDA s2 :
         ifThenBody(s2, scope, ifStatement)))

RECURSIVE occursCheckN(_, _, _, _)
occursCheckN(s, needle, haystack0, fuel) ==
    LET haystack == follow(s, haystack0)
        h == s.types[haystack]
    IN IF needle = haystack THEN TRUE
       ELSE IF h.tag \in {"Union", "Intersection"} /\ fuel > 0
       THEN \E i \in DOMAIN h.parts : occursCheckN(s, needle, h.parts[i], fuel - 1)
       ELSE FALSE

\* an occurs check that does not follow the haystack or look into it
occursShallow(s, needle, haystack) == needle = haystack

occursCheck(s, needle, haystack) == occursCheckN(s, needle, haystack, Len(s.types))

\* The alias's Blocked head becomes Bound to the resolved type, or to any
\* when the head occurs in it.
bindAlias(s2, aliasTy, ty, alias) ==
    IF occursCheck(s2, aliasTy, ty)
    THEN reportError(emplaceType(s2, aliasTy, BoundTy(anyType)), alias.id, "OccursCheckFailed")
    ELSE emplaceType(s2, aliasTy, BoundTy(ty))

logRewrite(s5, alias, aliasTy, blocked, occurs, ty) ==
    IF s5.thrown THEN s5
    ELSE [s5 EXCEPT !.log.rewrites =
                        Append(@, [alias |-> alias.id, head |-> aliasTy, blocked |-> blocked,
                                   occurs |-> occurs, ty |-> ty])]

aliasBody(s1, scope, alias, defnScope, aliasTy) ==
    logRewrite(
        addNameConstraint(
            createGenerics(
                bindAlias(luauAssert(s1, s1.types[aliasTy].tag = "Blocked",
                                     "visit(AstStatTypeAlias*): aliasTy is blocked"),
                          aliasTy, rId(s1), alias),
                defnScope, alias.generics, TRUE),
            scope, alias.type.id, rId(s1), alias.name),
        alias, aliasTy, s1.types[aliasTy].tag = "Blocked", occursCheck(s1, aliasTy, rId(s1)),
        rId(s1))

typeBindingsOf(s, scope, alias) ==
    IF alias.exported THEN s.scopes[scope].exportedTypeBindings
    ELSE s.scopes[scope].privateTypeBindings

aliasScopeOf(s, alias) == IF Has(s.aliasScopes, alias.id) THEN s.aliasScopes[alias.id] ELSE 0

visitTypeAlias(s, scope, alias) ==
    IF s.thrown THEN s
    ELSE IF ~Has(typeBindingsOf(s, scope, alias), alias.name) \/ aliasScopeOf(s, alias) = 0 THEN s
    ELSE With(resolveType(s, aliasScopeOf(s, alias), alias.type, FALSE), LAMBDA s1 :
              aliasBody(s1, scope, alias, aliasScopeOf(s, alias),
                        typeBindingsOf(s, scope, alias)[alias.name].type))

declareGlobal(s1, scope, global) ==
    bind(IF s1.thrown THEN s1 ELSE [s1 EXCEPT !.declaredGlobals = Put(@, global.name, rId(s1))],
         scope, GSym(global.name), rId(s1))

visitDeclareGlobal(s, scope, global) ==
    With(resolveType(luauAssert(s, global.type.k # "None", "visit(AstStatDeclareGlobal*): type"),
                     scope, global.type, FALSE),
         LAMBDA s1 : declareGlobal(s1, scope, global))

isMetamethod(name) ==
    name \in {"__index", "__newindex", "__call", "__concat", "__unm", "__add", "__sub", "__mul",
              "__div", "__mod", "__pow", "__tostring", "__metatable", "__eq", "__lt", "__le",
              "__mode", "__iter", "__len"}

\* one iteration of the loop over declaredClass->props
setClassProp(x, owner, propName, ty) ==
    emplaceType(x, owner, [x.types[owner] EXCEPT !.props = Put(@, propName, ty)])

\* a method's argument pack gets the class as its first argument
addSelf(s1, prop, classTy, propTy) ==
    IF prop.isMethod /\ s1.types[propTy].tag = "Function"
    THEN With(addTypePack(s1, Pk("Pack", <<classTy>>, s1.types[propTy].packs[1])), LAMBDA a :
              emplaceType(a, propTy, [a.types[propTy] EXCEPT !.packs[1] = lastPack(a)]))
    ELSE s1

currentProp(s2, owner, propName) ==
    IF Has(s2.types[owner].props, propName) THEN s2.types[owner].props[propName] ELSE 0

\* metatable->props[propName] default-constructs a missing Property
defaultProp(s2, owner, propName) ==
    IF isMetamethod(propName) /\ currentProp(s2, owner, propName) = 0 /\ ~s2.thrown
    THEN setClassProp(s2, owner, propName, 0)
    ELSE s2

overloadProp(s3, owner, propName, parts) ==
    With(addType(s3, IntersectionTy(parts)), LAMBDA a :
         setClassProp(a, owner, propName, lastType(a)))

classProp(s2, declaredClass, classTy, owner, propName, propTy, currentTy) ==
    IF ~Has(s2.types[classTy].props, propName) THEN setClassProp(s2, owner, propName, propTy)
    ELSE IF currentTy # 0 /\ s2.types[currentTy].tag = "Intersection"
    THEN overloadProp(defaultProp(s2, owner, propName), owner, propName,
                      Append(s2.types[currentTy].parts, propTy))
    ELSE IF currentTy # 0 /\ s2.types[currentTy].tag = "Function"
    THEN overloadProp(defaultProp(s2, owner, propName), owner, propName, <<currentTy, propTy>>)
    ELSE reportError(defaultProp(s2, owner, propName), declaredClass.id, "GenericError")

classPropIn(s2, declaredClass, classTy, owner, propName, propTy) ==
    classProp(s2, declaredClass, classTy, owner, propName, propTy,
              currentProp(s2, owner, propName))

declareClassProp(s, scope, declaredClass, classTy, metaTy, prop) ==
    IF s.thrown THEN s
    ELSE With(resolveType(s, scope, prop.ty, FALSE), LAMBDA s1 :
              classPropIn(addSelf(s1, prop, classTy, rId(s1)), declaredClass, classTy,
                          IF isMetamethod(prop.name) THEN metaTy ELSE classTy,
                          prop.name, rId(s1)))

exportClass(s3, scope, name, classTy) ==
    IF s3.thrown THEN s3
    ELSE [s3 EXCEPT !.scopes[scope].exportedTypeBindings = Put(@, name, TypeFun(<<>>, classTy))]

declareProps(s4, scope, declaredClass, classTy, metaTy) ==
    LET F[i \in 0..Len(declaredClass.props)] ==
            IF i = 0 THEN s4
            ELSE declareClassProp(F[i - 1], scope, declaredClass, classTy, metaTy,
                                  declaredClass.props[i])
    IN F[Len(declaredClass.props)]

setMetatable(s2, classTy, metaTy) ==
    emplaceType(s2, classTy, [s2.types[classTy] EXCEPT !.parts[2] = metaTy])

declareClass(s0, scope, declaredClass, superTy) ==
    With(addType(s0, ClassTy(declaredClass.name, superTy, 0)), LAMBDA s1 :
    With(addType(s1, TableTy(EmptyMap, "Sealed")), LAMBDA s2 :
         declareProps(exportClass(setMetatable(s2, lastType(s1), lastType(s2)), scope,
                                  declaredClass.name, lastType(s1)),
                      scope, declaredClass, lastType(s1), lastType(s2))))

declareSubclass(s, s0, scope, declaredClass, lookedUp) ==
    IF lookedUp.type = 0 THEN reportError(s, declaredClass.id, "UnknownSymbol")
    ELSE IF s.types[follow(s, lookedUp.type)].tag # "Class"
    THEN reportError(s0, declaredClass.id, "GenericError")
    ELSE declareClass(s0, scope, declaredClass, lookedUp.type)

visitDeclareClass(s, scope, declaredClass) ==
    IF s.thrown THEN s
    ELSE IF declaredClass.superName # ""
    THEN With(lookupType(s, scope, declaredClass.superName), LAMBDA lookedUp :
              declareSubclass(s, luauAssert(s, Len(lookedUp.typeParams) = 0,
                                            "visit(AstStatDeclareClass*): generic class"),
                              scope, declaredClass, lookedUp))
    ELSE declareClass(s, scope, declaredClass, IF s.negatedClassTypes THEN classType ELSE 0)

visitStatError(s, scope, error) ==
    LET F[i \in 0..Len(error.statements)] ==
            IF i = 0 THEN s ELSE visit(F[i - 1], scope, error.statements[i])
        G[i \in 0..Len(error.expressions)] ==
            IF i = 0 THEN F[Len(error.statements)]
            ELSE check(G[i - 1], scope, error.expressions[i], 0, FALSE)
    IN G[Len(error.expressions)]

\* visit(scope, AstStat*)
visitKind(s0, scope, stat) ==
    CASE stat.k = "Block" -> visitBlock(s0, scope, stat)
      [] stat.k = "If" -> visitIf(s0, scope, stat)
      [] stat.k = "While" -> visitWhile(s0, scope, stat)
      [] stat.k = "Repeat" -> visitRepeat(s0, scope, stat)
      [] stat.k \in {"Break", "Continue"} -> s0
      [] stat.k = "Return" -> visitReturn(s0, scope, stat)
      [] stat.k = "Expr" -> checkPack(s0, scope, stat.expr, <<>>)
      [] stat.k = "LocalStat" -> visitLocal(s0, scope, stat)
      [] stat.k = "For" -> visitFor(s0, scope, stat)
      [] stat.k = "ForIn" -> visitForIn(s0, scope, stat)
      [] stat.k = "Assign" -> visitAssign(s0, scope, stat)
      [] stat.k = "CompoundAssign" -> visitCompoundAssign(s0, scope, stat)
      [] stat.k = "FunctionStat" -> visitFunction(s0, scope, stat)
      [] stat.k = "LocalFunction" -> visitLocalFunction(s0, scope, stat)
      [] stat.k = "TypeAlias" -> visitTypeAlias(s0, scope, stat)
      [] stat.k = "DeclareGlobal" -> visitDeclareGlobal(s0, scope, stat)
      [] stat.k = "DeclareClass" -> visitDeclareClass(s0, scope, stat)
      [] stat.k = "StatError" -> visitStatError(s0, scope, stat)
      [] OTHER -> luauAssert(s0, FALSE, "Internal error: Unknown AstStat type")

visitStat(s, scope, stat) ==
    IF s.thrown THEN s
    ELSE With(enterLimited(s), LAMBDA s0 :
              leave(IF s0.thrown THEN s0 ELSE visitKind(s0, scope, stat)))

\* the first loop of visitBlockWithoutChildScope: the type bindings of the
\* block's aliases
bindInitial(s4, scope, alias, initialFun) ==
    IF alias.exported
    THEN [s4 EXCEPT !.scopes[scope].exportedTypeBindings = Put(@, alias.name, initialFun)]
    ELSE [s4 EXCEPT !.scopes[scope].privateTypeBindings = Put(@, alias.name, initialFun)]

prepassGenerics(s3, scope, alias, defnScope, initialType) ==
    [bindInitial(bindGenerics(s3, defnScope, s3.ret), scope, alias,
                 TypeFun([j \in DOMAIN s3.ret |-> s3.ret[j].ty], initialType))
     EXCEPT !.aliasScopes = Put(@, alias.id, defnScope)]

prepassScope(s1, scope, alias) ==
    With(addType(s1, BlockedTy), LAMBDA s2 :
         prepassGenerics(createGenerics(s2, lastScope(s1), alias.generics, TRUE), scope, alias,
                         lastScope(s1), lastType(s2)))

\* a prepass that takes no name for declared
neverBound(sc, name) == FALSE

isBound(sc, name) == Has(sc.exportedTypeBindings, name) \/ Has(sc.privateTypeBindings, name)

\* a report that carries the location of the duplicate itself
reportDuplicateHere(s, alias, previousLocation) ==
    IF s.thrown THEN s
    ELSE [s EXCEPT !.errors = Append(@, [loc |-> alias.id, kind |-> "DuplicateTypeDefinition",
                                         name |-> alias.name, previousLocation |-> alias.id])]

\* reportError(alias->location, DuplicateTypeDefinition{name, it->second})
reportDuplicate(s, alias, previousLocation) ==
    IF s.thrown THEN s
    ELSE [s EXCEPT !.errors = Append(@, [loc |-> alias.id, kind |-> "DuplicateTypeDefinition",
                                         name |-> alias.name,
                                         previousLocation |-> previousLocation])]

typeBindingsNamed(sc, name) ==
    [exported |-> IF Has(sc.exportedTypeBindings, name) THEN sc.exportedTypeBindings[name]
                  ELSE NoTypeFun,
     private |-> IF Has(sc.privateTypeBindings, name) THEN sc.privateTypeBindings[name]
                 ELSE NoTypeFun]

logDuplicate(s, reported, scope, alias, found) ==
    IF s.thrown THEN reported
    ELSE [reported EXCEPT !.log.duplicates =
              Append(@, [alias |-> alias.id, node |-> alias, scope |-> scope, found |-> found,
                         bindingBefore |-> typeBindingsNamed(s.scopes[scope], alias.name),
                         bindingAfter |-> typeBindingsNamed(reported.scopes[scope], alias.name),
                         scopesBefore |-> Len(s.scopes), scopesAfter |-> Len(reported.scopes),
                         errorsBefore |-> s.errors, errorsAfter |-> reported.errors,
                         thrown |-> reported.thrown])]

\* it->second of an iterator at end() is an undefined read
duplicateAlias(a, scope, alias) ==
    LET found == Has(a.aliasDefinitionLocations, alias.name)
        s1 == luauAssert(a.s, found, "visitBlockWithoutChildScope: alias location")
        s2 == IF found THEN s1 ELSE undefinedRead(s1)
    IN logDuplicate(a.s, reportDuplicate(s2, alias, IF found THEN a.aliasDefinitionLocations[alias.name]
                                                     ELSE ""),
                    scope, alias, found)

prepassAlias(a, scope, alias) ==
    IF alias.k # "TypeAlias" \/ a.s.thrown THEN a
    ELSE IF isBound(a.s.scopes[scope], alias.name)
    THEN [a EXCEPT !.s = duplicateAlias(a, scope, alias)]
    ELSE [s |-> prepassScope(childScope(a.s, alias.id, scope), scope, alias),
          aliasDefinitionLocations |-> Put(a.aliasDefinitionLocations, alias.name, alias.id)]

aliasPrepass(s, scope, block) ==
    LET F[i \in 0..Len(block.body)] ==
            IF i = 0 THEN [s |-> s, aliasDefinitionLocations |-> EmptyMap]
            ELSE prepassAlias(F[i - 1], scope, block.body[i])
    IN F[Len(block.body)].s

visitAll(s1, scope, block) ==
    LET F[i \in 0..Len(block.body)] ==
            IF i = 0 THEN s1 ELSE visit(F[i - 1], scope, block.body[i])
    IN F[Len(block.body)]

visitLimited(s0, scope, block) ==
    IF s0.recursionCount >= s0.limit
    THEN logLimit(s0, leave(reportCodeTooComplex(s0, block.id)), "visitBlockWithoutChildScope", block)
    ELSE With(aliasPrepass(s0, scope, block), LAMBDA s1 : leave(visitAll(s1, scope, block)))

visitStatements(s, scope, block) ==
    IF s.thrown THEN s ELSE visitLimited(enter(s), scope, block)

dispatch(op, s, scope, node, expected, flag) ==
    CASE op = "check" -> checkExpr(s, scope, node, expected, flag)
      [] op = "checkPack" -> checkPackExpr(s, scope, node, expected)
      [] op = "checkPackCall" -> checkPackExprCall(s, scope, node)
      [] op = "resolveType" -> resolveAstType(s, scope, node, flag)
      [] op = "visit" -> visitStat(s, scope, node)
      [] op = "visitBlockWithoutChildScope" -> visitStatements(s, scope, node)

\* The children of a node, in the order AstVisitor walks them.
childrenOf(n) ==
    CASE n.k \in {"Block"} -> n.body
      [] n.k = "If" -> <<n.condition, n.thenbody>> \o (IF n.elsebody.k = "None" THEN <<>> ELSE <<n.elsebody>>)
      [] n.k = "While" -> <<n.condition, n.body>>
      [] n.k = "Repeat" -> <<n.body, n.condition>>
      [] n.k = "Return" -> n.list
      [] n.k = "Expr" -> <<n.expr>>
      [] n.k = "LocalStat" -> n.values
      [] n.k = "For" -> <<n.from, n.to>> \o (IF n.step.k = "None" THEN <<>> ELSE <<n.step>>) \o <<n.body>>
      [] n.k = "ForIn" -> n.values \o <<n.body>>
      [] n.k = "Assign" -> n.vars \o n.values
      [] n.k = "CompoundAssign" -> <<n.var, n.value>>
      [] n.k = "FunctionStat" -> <<n.name, n.func>>
      [] n.k = "LocalFunction" -> <<n.func>>
      [] n.k = "StatError" -> n.expressions \o n.statements
      [] n.k = "Function" -> <<n.body>>
      [] n.k \in {"Group", "Unary", "TypeAssertion", "IndexName"} -> <<n.expr>>
      [] n.k = "IndexExpr" -> <<n.expr, n.index>>
      [] n.k = "Call" -> <<n.func>> \o n.args
      [] n.k = "Binary" -> <<n.left, n.right>>
      [] n.k = "IfElse" -> <<n.condition, n.trueExpr, n.falseExpr>>
      [] n.k = "Table" -> n.items
      [] n.k = "Error" -> n.expressions
      [] OTHER -> <<>>

\* GlobalPrepopulator: the names of the AstStatFunctions that define a global
RECURSIVE globalFunctions(_)
globalFunctions(n) ==
    LET kids == childrenOf(n)
        F[i \in 0..Len(kids)] == IF i = 0 THEN <<>> ELSE F[i - 1] \o globalFunctions(kids[i])
    IN (IF n.k = "FunctionStat" /\ n.name.k = "Global" THEN <<n.name.name>> ELSE <<>>)
       \o F[Len(kids)]

prepopulateGlobalScope(s, globalScope, block) ==
    LET names == globalFunctions(block)
        F[i \in 0..Len(names)] ==
            IF i = 0 THEN s
            ELSE LET a == addType(F[i - 1], BlockedTy)
                 IN bind(a, globalScope, GSym(names[i]), lastType(a))
    IN F[Len(names)]

(***************************************************************************)
(* The programs the builder is run on.                                     *)
(***************************************************************************)
Num(id) == TRef(id, "number", <<>>)
Str(id) == TRef(id, "string", <<>>)
Fn(id, args, body) == EFunction(id, <<>>, args, FALSE, FALSE, <<>>, body)

\* local function g(a) return a end
\* local x = g(1, "s")
\* print(g(x))
\* x.m.n(3)
ProgCalls == SBlock("root", <<
    SLocalFunction("s1", "g", Fn("g.fn", <<Local("a", NoNode)>>,
        SBlock("g.body", <<SReturn("g.ret", <<ELocal("g.a", "a")>>)>>))),
    SLocal("s2", <<Local("x", NoNode)>>,
        <<ECall("c1", ELocal("c1.f", "g"), <<ENumber("c1.1"), EString("c1.2", "s")>>)>>),
    SExpr("s3", ECall("c2", EGlobal("c2.f", "print"),
        <<ECall("c3", ELocal("c3.f", "g"), <<ELocal("c3.x", "x")>>)>>)),
    SExpr("s4", ECall("c4", EIndexName("c4.f", EIndexName("c4.m", ELocal("c4.x", "x"), "m"), "n"),
        <<ENumber("c4.1")>>)) >>)

\* function f(a: number): number return a end
\* local h = function(b) return f(b) end
\* h(f(2), h)
ProgFunctions == SBlock("root", <<
    SFunction("s1", EGlobal("f.name", "f"),
        EFunction("f.fn", <<>>, <<Local("a", Num("a.t"))>>, FALSE, TRUE, <<Num("f.rt")>>,
            SBlock("f.body", <<SReturn("f.ret", <<ELocal("f.a", "a")>>)>>))),
    SLocal("s2", <<Local("h", NoNode)>>,
        <<Fn("h.fn", <<Local("b", NoNode)>>,
            SBlock("h.body", <<SReturn("h.ret",
                <<ECall("c1", EGlobal("c1.f", "f"), <<ELocal("c1.b", "b")>>)>>)>>))>>),
    SExpr("s3", ECall("c2", ELocal("c2.f", "h"),
        <<ECall("c3", EGlobal("c3.f", "f"), <<ENumber("c3.1")>>), ELocal("c2.h", "h")>>)) >>)

\* local t = {}
\* t["k"] = 1
\* t.a.b = 2
\* t[1], u.v = 3, nil
ProgLValues == SBlock("root", <<
    SLocal("s1", <<Local("t", NoNode)>>, <<ETable("t.init", <<>>)>>),
    SAssign("s2", <<EIndexExpr("l1", ELocal("l1.t", "t"), EString("l1.k", "k"))>>, <<ENumber("v1")>>),
    SAssign("s3", <<EIndexName("l2", EIndexName("l2.a", ELocal("l2.t", "t"), "a"), "b")>>,
                  <<ENumber("v2")>>),
    SAssign("s4", <<EIndexExpr("l3", ELocal("l3.t", "t"), ENumber("l3.1")),
                    EIndexName("l4", EGlobal("l4.u", "u"), "v")>>,
                  <<ENumber("v3"), ENil("v4")>>) >>)

\* local x = nil
\* if x then local y = x elseif not x then x = 1 else local z = 2 end
ProgIf == SBlock("root", <<
    SLocal("s1", <<Local("x", NoNode)>>, <<ENil("x.init")>>),
    SIf("s2", ELocal("c1", "x"),
        SBlock("then1", <<SLocal("s3", <<Local("y", NoNode)>>, <<ELocal("y.init", "x")>>)>>),
        SIf("s4", EUnary("c2", "not", ELocal("c2.x", "x")),
            SBlock("then2", <<SAssign("s5", <<ELocal("l1", "x")>>, <<ENumber("v1")>>)>>),
            SBlock("else2", <<SLocal("s6", <<Local("z", NoNode)>>, <<ENumber("z.init")>>)>>))) >>)

\* while true do local a = 1 end
\* for i = 1, 2 do local b = i end
\* for k, v in pairs(t) do break end
\* do local c = 1 end
ProgLoops == SBlock("root", <<
    SWhile("s1", EBool("c1", TRUE),
        SBlock("w.body", <<SLocal("s2", <<Local("a", NoNode)>>, <<ENumber("a.init")>>)>>)),
    SFor("s3", Local("i", NoNode), ENumber("from"), ENumber("to"), NoNode,
        SBlock("f.body", <<SLocal("s4", <<Local("b", NoNode)>>, <<ELocal("b.init", "i")>>)>>)),
    SForIn("s5", <<Local("k", NoNode), Local("v", NoNode)>>,
        <<ECall("c2", EGlobal("c2.f", "pairs"), <<EGlobal("c2.t", "t")>>)>>,
        SBlock("fi.body", <<SBreak("s6")>>)),
    SBlock("do", <<SLocal("s7", <<Local("c", NoNode)>>, <<ENumber("c.init")>>)>>) >>)

\* repeat local r = 1 until r
\* repeat local function q() end until q()
ProgRepeat == SBlock("root", <<
    SRepeat("s1", SBlock("r.body", <<SLocal("s2", <<Local("r", NoNode)>>, <<ENumber("r.init")>>)>>),
        ELocal("c1", "r")),
    SRepeat("s3", SBlock("q.body", <<SLocalFunction("s4", "q", Fn("q.fn", <<>>, SBlock("q.b", <<>>)))>>),
        ECall("c2", ELocal("c2.f", "q"), <<>>)) >>)

\* type A = number
\* type B = B | string
\* export type C = { next: C }
\* type D = D
ProgAliases == SBlock("root", <<
    STypeAlias("s1", "A", FALSE, <<>>, Num("A.t")),
    STypeAlias("s2", "B", FALSE, <<>>, TUnion("B.t", <<TRef("B.1", "B", <<>>), Str("B.2")>>)),
    STypeAlias("s3", "C", TRUE, <<>>, TTable("C.t", <<TProp("next", TRef("C.1", "C", <<>>))>>)),
    STypeAlias("s4", "D", FALSE, <<>>, TRef("D.t", "D", <<>>)) >>)

\* type A = B
\* type B = A
\* type A = string
\* export type B = number
ProgAliasCycle == SBlock("root", <<
    STypeAlias("s1", "A", FALSE, <<>>, TRef("A.t", "B", <<>>)),
    STypeAlias("s2", "B", FALSE, <<>>, TRef("B.t", "A", <<>>)),
    STypeAlias("s3", "A", FALSE, <<>>, Str("A2.t")),
    STypeAlias("s4", "B", TRUE, <<>>, Num("B2.t")) >>)

\* export type A = number
\* <error: type E = A; type A = string>
\* do type A = A & B  type B = A end
\* type A = string
ProgAliasError == SBlock("root", <<
    STypeAlias("s1", "A", TRUE, <<>>, Num("A.t")),
    SError("s2", <<STypeAlias("s3", "E", FALSE, <<>>, TRef("E.t", "A", <<>>)),
                   STypeAlias("s4", "A", FALSE, <<>>, Str("A2.t"))>>, <<>>),
    SBlock("do", <<
        STypeAlias("s5", "A", FALSE, <<>>,
            TIntersection("A3.t", <<TRef("A3.1", "A", <<>>), TRef("A3.2", "B", <<>>)>>)),
        STypeAlias("s6", "B", FALSE, <<>>, TRef("B.t", "A", <<>>))>>),
    STypeAlias("s7", "A", FALSE, <<>>, Str("A4.t")),
    STypeAlias("s8", "A", TRUE, <<>>, Str("A5.t")) >>)

Self(id) == TRef(id, "C", <<>>)

\* declare class C
\*     function __add(self, x: number): C
\*     function __add(self, x: string): C
\*     function m(self): number
\*     function m(self, a: string): string
\*     p: number
\*     p: string
\* end
\* declare class D extends C  __len: number  end
\* declare class E extends X end
ProgClass == SBlock("root", <<
    SDeclareClass("s1", "C", "", <<
        ClassProp("__add", TFunction("add1", <<>>, <<Num("add1.x")>>, <<Self("add1.r")>>), TRUE),
        ClassProp("__add", TFunction("add2", <<>>, <<Str("add2.x")>>, <<Self("add2.r")>>), TRUE),
        ClassProp("m", TFunction("m1", <<>>, <<>>, <<Num("m1.r")>>), TRUE),
        ClassProp("m", TFunction("m2", <<>>, <<Str("m2.a")>>, <<Str("m2.r")>>), TRUE),
        ClassProp("p", Num("p1"), FALSE),
        ClassProp("p", Str("p2"), FALSE) >>),
    SDeclareClass("s2", "D", "C", <<ClassProp("__len", Num("len"), FALSE)>>),
    SDeclareClass("s3", "E", "X", <<>>) >>)

\* <error: <error: <error: <error: local e = (1)>>>>
\* local d = ((((2))))
ProgNested == SBlock("root", <<
    SError("s1", <<SError("s2", <<SError("s3", <<SError("s4",
        <<SLocal("s5", <<Local("e", NoNode)>>, <<EGroup("g1", ENumber("n1"))>>)>>, <<>>)>>,
        <<>>)>>, <<>>)>>, <<EError("x1", <<ENumber("n0")>>)>>),
    SLocal("s6", <<Local("d", NoNode)>>,
        <<EGroup("g2", EGroup("g3", EGroup("g4", EGroup("g5", ENumber("n2")))))>>) >>)

\* local t = setmetatable({}, {})
\* local y, nd = t, 1
\* assert(type(y) == "table" and nd)
\* local M = require(M)
\* t:m(y)
\* assert(y == t:n(nd))
ProgBuiltins == SBlock("root", <<
    SLocal("s1", <<Local("t", NoNode)>>,
        <<ECall("c1", EGlobal("c1.f", "setmetatable"), <<ETable("c1.1", <<>>), ETable("c1.2", <<>>)>>)>>),
    SLocal("s2", <<Local("y", NoNode), Local("nd", NoNode)>>, <<ELocal("y.init", "t"), ENumber("nd.init")>>),
    SExpr("s3", ECall("c2", EGlobal("c2.f", "assert"),
        <<EBinary("b1", "and",
            EBinary("b2", "==",
                ECall("c3", EGlobal("c3.f", "type"), <<ELocal("c3.y", "y")>>), EString("b2.s", "table")),
            ELocal("b1.nd", "nd"))>>)),
    SLocal("s4", <<Local("M", NoNode)>>,
        <<ECall("c4", EGlobal("c4.f", "require"), <<EGlobal("c4.m", "M")>>)>>),
    SExpr("s5", EMethodCall("c5", EIndexName("c5.f", ELocal("c5.t", "t"), "m"), <<ELocal("c5.y", "y")>>)),
    SExpr("s6", ECall("c6", EGlobal("c6.f", "assert"),
        <<EBinary("b3", "==", ELocal("b3.y", "y"),
            EMethodCall("c7", EIndexName("c7.f", ELocal("c7.t", "t"), "n"), <<ELocal("c7.nd", "nd")>>))>>)) >>)

\* local x, s = 1, "a"
\* local b = (x == 1 or s ~= "a") and not x
\* local i = if typeof(x) ~= "boolean" then x else s
\* x += (s :: number)
\* local v: boolean | "a" = true, {1, "a"}
ProgOperators == SBlock("root", <<
    SLocal("s1", <<Local("x", NoNode), Local("s", NoNode)>>, <<ENumber("x.init"), EString("s.init", "a")>>),
    SLocal("s2", <<Local("b", NoNode)>>,
        <<EBinary("b1", "and",
            EGroup("g1", EBinary("b2", "or",
                EBinary("b3", "==", ELocal("b3.x", "x"), ENumber("b3.1")),
                EBinary("b4", "~=", ELocal("b4.s", "s"), EString("b4.a", "a")))),
            EUnary("u1", "not", ELocal("u1.x", "x")))>>),
    SLocal("s3", <<Local("i", NoNode)>>,
        <<EIfElse("ie", EBinary("b5", "~=",
                ECall("c1", EGlobal("c1.f", "typeof"), <<ELocal("c1.x", "x")>>), EString("b5.s", "boolean")),
            ELocal("ie.x", "x"), ELocal("ie.s", "s"))>>),
    SCompoundAssign("s4", "+", ELocal("l1", "x"), ETypeAssertion("ta", ELocal("ta.s", "s"), Num("ta.t"))),
    SLocal("s5", <<Local("v", TUnion("v.t", <<TRef("v.t1", "boolean", <<>>), TSingletonString("v.t2", "a")>>))>>,
        <<EBool("v.init", TRUE), ETable("tb", <<ENumber("tb.1"), EString("tb.2", "a")>>)>>) >>)

\* type G<T> = { v: T }
\* declare g: G<number>
\* local f: (number) -> string = function(n) return "a" end
\* local function va(...) return ... end
\* local w: typeof(g) = va(f)
ProgGenerics == SBlock("root", <<
    STypeAlias("s1", "G", FALSE, <<"T">>, TTable("G.t", <<TProp("v", TRef("G.v", "T", <<>>))>>)),
    SDeclareGlobal("s2", "g", TRef("g.t", "G", <<Num("g.t1")>>)),
    SLocal("s3", <<Local("f", TFunction("f.t", <<>>, <<Num("f.t1")>>, <<Str("f.t2")>>))>>,
        <<Fn("f.fn", <<Local("n", NoNode)>>,
            SBlock("f.body", <<SReturn("f.ret", <<EString("f.a", "a")>>)>>))>>),
    SLocalFunction("s4", "va", EFunction("va.fn", <<>>, <<>>, TRUE, FALSE, <<>>,
        SBlock("va.body", <<SReturn("va.ret", <<EVarargs("va.v")>>)>>))),
    SLocal("s5", <<Local("w", TTypeof("w.t", EGlobal("w.g", "g")))>>,
        <<ECall("c1", ELocal("c1.f", "va"), <<ELocal("c1.1", "f")>>)>>) >>)

\* local function outer(a)
\*     local function inner(b) return b.x end
\*     return inner(a), a.y
\* end
\* local function empty() end
ProgLocalFunctions == SBlock("root", <<
    SLocalFunction("s1", "outer", Fn("outer.fn", <<Local("a", NoNode)>>,
        SBlock("outer.body", <<
            SLocalFunction("s2", "inner", Fn("inner.fn", <<Local("b", NoNode)>>,
                SBlock("inner.body", <<SReturn("inner.ret",
                    <<EIndexName("b.x", ELocal("b.ref", "b"), "x")>>)>>))),
            SReturn("outer.ret", <<ECall("c1", ELocal("c1.f", "inner"), <<ELocal("c1.a", "a")>>),
                                   EIndexName("a.y", ELocal("a.ref", "a"), "y")>>)>>))),
    SLocalFunction("s3", "empty", Fn("empty.fn", <<>>, SBlock("empty.body", <<>>))) >>)

\* local t, mt = {}, {}
\* setmetatable(t, mt)
\* do setmetatable(t, {}) end
\* setmetatable(mt, h())
ProgMetatable == SBlock("root", <<
    SLocal("s1", <<Local("t", NoNode), Local("mt", NoNode)>>,
        <<ETable("t.init", <<>>), ETable("mt.init", <<>>)>>),
    SExpr("s2", ECall("c1", EGlobal("c1.f", "setmetatable"),
        <<ELocal("c1.t", "t"), ELocal("c1.mt", "mt")>>)),
    SBlock("do", <<SExpr("s3", ECall("c2", EGlobal("c2.f", "setmetatable"),
        <<ELocal("c2.t", "t"), ETable("c2.mt", <<>>)>>))>>),
    SExpr("s4", ECall("c3", EGlobal("c3.f", "setmetatable"),
        <<ELocal("c3.t", "mt"), ECall("c4", EGlobal("c4.f", "h"), <<>>)>>)) >>)

\* local v, w = 1, "a"
\* if type(v) == "number" then local a = v else local b = v end
\* assert(w)
\* local c = w
\* assert(w)
\* assert(w)
\* assert(type(v) ~= "string")
\* assert(type(v) ~= "string")
\* assert(v == 1)
\* assert(v == 1)
ProgRefinements == SBlock("root", <<
    SLocal("s1", <<Local("v", NoNode), Local("w", NoNode)>>, <<ENumber("v.init"), EString("w.init", "a")>>),
    SIf("s2", EBinary("c1", "==",
                  ECall("g1", EGlobal("g1.f", "type"), <<ELocal("g1.v", "v")>>), EString("c1.s", "number")),
        SBlock("then1", <<SLocal("s3", <<Local("a", NoNode)>>, <<ELocal("a.init", "v")>>)>>),
        SBlock("else1", <<SLocal("s4", <<Local("b", NoNode)>>, <<ELocal("b.init", "v")>>)>>)),
    SExpr("s5", ECall("c2", EGlobal("c2.f", "assert"), <<ELocal("c2.w", "w")>>)),
    SLocal("s6", <<Local("c", NoNode)>>, <<ELocal("c.init", "w")>>),
    SExpr("s7", ECall("c3", EGlobal("c3.f", "assert"), <<ELocal("c3.w", "w")>>)),
    SExpr("s12", ECall("c8", EGlobal("c8.f", "assert"), <<ELocal("c8.w", "w")>>)),
    SExpr("s8", ECall("c4", EGlobal("c4.f", "assert"),
        <<EBinary("c4.b", "~=", ECall("g4", EGlobal("g4.f", "type"), <<ELocal("g4.v", "v")>>),
                  EString("c4.s", "string"))>>)),
    SExpr("s9", ECall("c5", EGlobal("c5.f", "assert"),
        <<EBinary("c5.b", "~=", ECall("g5", EGlobal("g5.f", "type"), <<ELocal("g5.v", "v")>>),
                  EString("c5.s", "string"))>>)),
    SExpr("s10", ECall("c6", EGlobal("c6.f", "assert"),
        <<EBinary("c6.b", "==", ELocal("c6.v", "v"), ENumber("c6.1"))>>)),
    SExpr("s11", ECall("c7", EGlobal("c7.f", "assert"),
        <<EBinary("c7.b", "==", ELocal("c7.v", "v"), ENumber("c7.1"))>>)) >>)

\* for i = 1, 2 do assert(i) end
ProgRefineLoop == SBlock("root", <<
    SFor("s1", Local("i", NoNode), ENumber("from"), ENumber("to"), NoNode,
        SBlock("f.body", <<SExpr("s2", ECall("c1", EGlobal("c1.f", "assert"),
                                            <<ELocal("c1.i", "i")>>))>>)) >>)

\* local function g() end
\* if g then local d = g else local e = g end
ProgRefineFunction == SBlock("root", <<
    SLocalFunction("s1", "g", Fn("g.fn", <<>>, SBlock("g.body", <<>>))),
    SIf("s2", ELocal("c1", "g"),
        SBlock("then1", <<SLocal("s3", <<Local("d", NoNode)>>, <<ELocal("d.init", "g")>>)>>),
        SBlock("else1", <<SLocal("s4", <<Local("e", NoNode)>>, <<ELocal("e.init", "g")>>)>>)) >>)

\* local a: number, b, c = nil, nil
\* local d, e: string = h()
\* local x: number = 1
\* local y: number = h()
\* local z: number = nil
\* local p: number = ...
\* local nd = x
\* local g = 1, nil
ProgLocals == SBlock("root", <<
    SLocal("s1", <<Local("a", Num("a.t")), Local("b", NoNode), Local("c", NoNode)>>,
        <<ENil("a.init"), ENil("b.init")>>),
    SLocal("s2", <<Local("d", NoNode), Local("e", Str("e.t"))>>,
        <<ECall("c1", EGlobal("c1.f", "h"), <<>>)>>),
    SLocal("s3", <<Local("x", Num("x.t"))>>, <<ENumber("x.init")>>),
    SLocal("s4", <<Local("y", Num("y.t"))>>, <<ECall("c2", EGlobal("c2.f", "h"), <<>>)>>),
    SLocal("s5", <<Local("z", Num("z.t"))>>, <<ENil("z.init")>>),
    SLocal("s6", <<Local("p", Num("p.t"))>>, <<EVarargs("p.init")>>),
    SLocal("s7", <<Local("nd", NoNode)>>, <<ELocal("nd.init", "x")>>),
    SLocal("s8", <<Local("g", NoNode)>>, <<ENumber("g.init"), ENil("g.nil")>>) >>)

\* do
\*     local a, b = (1), h()
\*     if true then local c = 1 else local d = 2 end
\* end
\* local after = 1
ProgDeep == SBlock("root", <<
    SBlock("do", <<
        SLocal("s1", <<Local("a", NoNode), Local("b", NoNode)>>,
            <<EGroup("a.init", ENumber("a.1")), ECall("b.init", EGlobal("b.f", "h"), <<>>)>>),
        SIf("s2", EBool("c1", TRUE),
            SBlock("then1", <<SLocal("s3", <<Local("c", NoNode)>>, <<ENumber("c.init")>>)>>),
            SBlock("else1", <<SLocal("s4", <<Local("d", NoNode)>>, <<ENumber("d.init")>>)>>)) >>),
    SLocal("s5", <<Local("after", NoNode)>>, <<ENumber("after.init")>>) >>)

\* local a, b, c = 1, require(M), require(N)
\* local d = require(X)
\* local e = require(M, 1)
\* local f, g = require(N)
\* local i = require(M), 2
ProgRequire == SBlock("root", <<
    SLocal("s1", <<Local("a", NoNode), Local("b", NoNode), Local("c", NoNode)>>,
        <<ENumber("a.init"), ECall("r1", EGlobal("r1.f", "require"), <<EGlobal("r1.m", "M")>>),
          ECall("r2", EGlobal("r2.f", "require"), <<EGlobal("r2.m", "N")>>)>>),
    SLocal("s2", <<Local("d", NoNode)>>,
        <<ECall("r3", EGlobal("r3.f", "require"), <<EGlobal("r3.m", "X")>>)>>),
    SLocal("s3", <<Local("e", NoNode)>>,
        <<ECall("r4", EGlobal("r4.f", "require"), <<EGlobal("r4.m", "M"), ENumber("r4.1")>>)>>),
    SLocal("s4", <<Local("f", NoNode), Local("g", NoNode)>>,
        <<ECall("r5", EGlobal("r5.f", "require"), <<EGlobal("r5.m", "N")>>)>>),
    SLocal("s5", <<Local("i", NoNode)>>,
        <<ECall("r6", EGlobal("r6.f", "require"), <<EGlobal("r6.m", "M")>>), ENumber("i.2")>>) >>)

\* local v = 1
\* if type(v) == "number" and v then local a = 1 else local b = 2 end
\* if type(v) ~= "number" or not v then local c = 3 end
ProgDual == SBlock("root", <<
    SLocal("s1", <<Local("v", NoNode)>>, <<ENumber("v.init")>>),
    SIf("s2", EBinary("c1", "and",
                  EBinary("c1.l", "==", ECall("g1", EGlobal("g1.f", "type"), <<ELocal("g1.v", "v")>>),
                          EString("c1.s", "number")),
                  ELocal("c1.r", "v")),
        SBlock("then1", <<SLocal("s3", <<Local("a", NoNode)>>, <<ENumber("a.init")>>)>>),
        SBlock("else1", <<SLocal("s4", <<Local("b", NoNode)>>, <<ENumber("b.init")>>)>>)),
    SIf("s5", EBinary("c2", "or",
                  EBinary("c2.l", "~=", ECall("g2", EGlobal("g2.f", "type"), <<ELocal("g2.v", "v")>>),
                          EString("c2.s", "number")),
                  EUnary("c2.r", "not", ELocal("c2.v", "v"))),
        SBlock("then2", <<SLocal("s6", <<Local("c", NoNode)>>, <<ENumber("c.init")>>)>>),
        NoNode) >>)

\* local t, nd = {}, {}
\* local a = t.x
\* local b = t.x
\* if t.y then local c = t.y end
\* local d = nd.x
\* local e = t.x.z
ProgIndex == SBlock("root", <<
    SLocal("s1", <<Local("t", NoNode), Local("nd", NoNode)>>, <<ETable("t.init", <<>>), ETable("nd.init", <<>>)>>),
    SLocal("s2", <<Local("a", NoNode)>>, <<EIndexName("a.init", ELocal("a.t", "t"), "x")>>),
    SLocal("s3", <<Local("b", NoNode)>>, <<EIndexName("b.init", ELocal("b.t", "t"), "x")>>),
    SIf("s4", EIndexName("c1", ELocal("c1.t", "t"), "y"),
        SBlock("then1", <<SLocal("s5", <<Local("c", NoNode)>>,
                                 <<EIndexName("c.init", ELocal("c.t", "t"), "y")>>)>>),
        NoNode),
    SLocal("s6", <<Local("d", NoNode)>>, <<EIndexName("d.init", ELocal("d.nd", "nd"), "x")>>),
    SLocal("s7", <<Local("e", NoNode)>>,
        <<EIndexName("e.init", EIndexName("e.x", ELocal("e.t", "t"), "x"), "z")>>) >>)

\* local v, nd = 1, 2
\* assert(type(v) == S), assert(S == type(v)), assert(typeof(v) ~= S),
\* assert(type(nd) == "number"), assert(type(G) == "number")
ProgTypeGuards == SBlock("root", <<
    SLocal("s0", <<Local("v", NoNode), Local("nd", NoNode)>>, <<ENumber("v.init"), ENumber("nd.init")>>),
    SExpr("s1", ECall("c1", EGlobal("c1.f", "assert"),
        <<EBinary("b1", "==", ECall("g1", EGlobal("g1.f", "type"), <<ELocal("g1.x", "v")>>),
                  EString("b1.s", "nil"))>>)),
    SExpr("s2", ECall("c2", EGlobal("c2.f", "assert"),
        <<EBinary("b2", "==", ECall("g2", EGlobal("g2.f", "type"), <<ELocal("g2.x", "v")>>),
                  EString("b2.s", "string"))>>)),
    SExpr("s3", ECall("c3", EGlobal("c3.f", "assert"),
        <<EBinary("b3", "~=", ECall("g3", EGlobal("g3.f", "type"), <<ELocal("g3.x", "v")>>),
                  EString("b3.s", "number"))>>)),
    SExpr("s4", ECall("c4", EGlobal("c4.f", "assert"),
        <<EBinary("b4", "==", ECall("g4", EGlobal("g4.f", "type"), <<ELocal("g4.x", "v")>>),
                  EString("b4.s", "boolean"))>>)),
    SExpr("s5", ECall("c5", EGlobal("c5.f", "assert"),
        <<EBinary("b5", "==", EString("b5.s", "table"),
                  ECall("g5", EGlobal("g5.f", "type"), <<ELocal("g5.x", "v")>>))>>)),
    SExpr("s6", ECall("c6", EGlobal("c6.f", "assert"),
        <<EBinary("b6", "~=", ECall("g6", EGlobal("g6.f", "type"), <<ELocal("g6.x", "v")>>),
                  EString("b6.s", "function"))>>)),
    SExpr("s7", ECall("c7", EGlobal("c7.f", "assert"),
        <<EBinary("b7", "==", ECall("g7", EGlobal("g7.f", "type"), <<ELocal("g7.x", "v")>>),
                  EString("b7.s", "thread"))>>)),
    SExpr("s8", ECall("c8", EGlobal("c8.f", "assert"),
        <<EBinary("b8", "==", ECall("g8", EGlobal("g8.f", "type"), <<ELocal("g8.x", "v")>>),
                  EString("b8.s", "userdata"))>>)),
    SExpr("s9", ECall("c9", EGlobal("c9.f", "assert"),
        <<EBinary("b9", "==", EString("b9.s", "vector"),
                  ECall("g9", EGlobal("g9.f", "type"), <<ELocal("g9.x", "v")>>))>>)),
    SExpr("s10", ECall("c10", EGlobal("c10.f", "assert"),
        <<EBinary("b10", "==", ECall("g10", EGlobal("g10.f", "typeof"), <<ELocal("g10.x", "v")>>),
                  EString("b10.s", "number"))>>)),
    SExpr("s11", ECall("c11", EGlobal("c11.f", "assert"),
        <<EBinary("b11", "~=", EString("b11.s", "boolean"),
                  ECall("g11", EGlobal("g11.f", "typeof"), <<ELocal("g11.x", "v")>>))>>)),
    SExpr("s12", ECall("c12", EGlobal("c12.f", "assert"),
        <<EBinary("b12", "==", ECall("g12", EGlobal("g12.f", "type"), <<ELocal("g12.x", "nd")>>),
                  EString("b12.s", "number"))>>)),
    SExpr("s13", ECall("c13", EGlobal("c13.f", "assert"),
        <<EBinary("b13", "==", ECall("g13", EGlobal("g13.f", "type"), <<EGlobal("g13.x", "G")>>),
                  EString("b13.s", "number"))>>)) >>)

Programs == {ProgIndex, ProgTypeGuards, ProgDual, ProgRequire, ProgDeep, ProgLocals, ProgCalls, ProgFunctions, ProgLValues, ProgIf, ProgLoops, ProgRepeat, ProgAliases,
             ProgAliasCycle, ProgAliasError, ProgClass, ProgNested, ProgBuiltins, ProgOperators,
             ProgGenerics, ProgLocalFunctions, ProgMetatable, ProgRefinements, ProgRefineLoop,
             ProgRefineFunction}

(***************************************************************************)
(* The state machine.                                                      *)
(***************************************************************************)
\* FInt::LuauCheckRecursionLimit: a limit the programs reach, and one they do not
SmallLimit == 4
LargeLimit == 40

\* The global scope that the frontend hands to the builder: the builtin
\* functions and the builtin type names.
GlobalScope ==
    [Scope(0, "") EXCEPT
        !.bindings = [g \in {GSym(n) : n \in {"print", "assert", "setmetatable", "type", "typeof",
                                              "require", "pairs", "M"}} |-> globalFnType],
        !.exportedTypeBindings =
            [n \in {"number", "string", "boolean", "any", "nil"} |-> TypeFun(<<>>, BuiltinId(n))]]

globalScope == 1
rootScope == 2

EmptyLog == [visited |-> {}, calls |-> <<>>, repeats |-> <<>>, rewrites |-> <<>>, functions |-> <<>>,
             assertions |-> <<>>, branches |-> <<>>, locals |-> <<>>, limits |-> <<>>,
             overflows |-> <<>>, duplicates |-> <<>>]

\* The builder's state as one record (the `this` of every method).
State ==
    [types |-> types, typePacks |-> typePacks, scopes |-> scopes, constraints |-> constraints,
     errors |-> errors, astTypes |-> astTypes, astTypePacks |-> astTypePacks,
     astScopes |-> astScopes, astExpectedTypes |-> astExpectedTypes,
     astOriginalCallTypes |-> astOriginalCallTypes, astResolvedTypes |-> astResolvedTypes,
     declaredGlobals |-> declaredGlobals, aliasScopes |-> aliasScopes,
     recursionCount |-> recursionCount, thrown |-> thrown, asserts |-> asserts, log |-> log,
     limit |-> limit, noDefs |-> noDefs, ub |-> ub, negatedClassTypes |-> negatedClassTypes,
     ret |-> 0]

Commit(s) ==
    /\ types' = s.types /\ typePacks' = s.typePacks /\ scopes' = s.scopes
    /\ constraints' = s.constraints /\ errors' = s.errors
    /\ astTypes' = s.astTypes /\ astTypePacks' = s.astTypePacks /\ astScopes' = s.astScopes
    /\ astExpectedTypes' = s.astExpectedTypes /\ astOriginalCallTypes' = s.astOriginalCallTypes
    /\ astResolvedTypes' = s.astResolvedTypes /\ declaredGlobals' = s.declaredGlobals
    /\ aliasScopes' = s.aliasScopes /\ recursionCount' = s.recursionCount
    /\ thrown' = s.thrown /\ asserts' = s.asserts /\ log' = s.log
    /\ UNCHANGED <<program, limit, noDefs, ub, negatedClassTypes, ir>>

(***************************************************************************)
(* IrBuilder::buildFunctionIr: bytecode to IR, block by block.             *)
(***************************************************************************)
\* the longest bytecode sequence
MaxCode == 4

\* ~0u: all 32 bits set, written as the 32-bit integer of the same bits
kNoAssociatedBlockIndex == -1

\* IrBlock::start of a block that has not begun
NoStart == kNoAssociatedBlockIndex

\* an absent IrOp
NoOp == [kind |-> "None", index |-> 0]

BlockOp(index) == [kind |-> "Block", index |-> index]

\* An Instruction word: the opcode with its C and D operands; "AUX" is the
\* second word of a two-word instruction.
Word(op, c, d) == [op |-> op, c |-> c, d |-> d]

JumpOffsets == {-3, -2, -1, 0, 1}

Words ==
    {Word(op, 0, 0) : op \in {"LOP_NOP", "LOP_COVERAGE", "LOP_CALL", "LOP_RETURN", "AUX"}}
        \cup {Word("LOP_JUMP", 0, d) : d \in JumpOffsets}
        \cup {Word("LOP_FASTCALL", 0, 0), Word("LOP_FASTCALL2K", 1, 0)}

\* getOpLength(op)
getOpLength(op) == IF op = "LOP_FASTCALL2K" THEN 2 ELSE 1

\* isFastCall(op)
isFastCall(op) == op \in {"LOP_FASTCALL", "LOP_FASTCALL2K"}

\* getJumpTarget(insn, pc): -1 when the instruction does not jump
getJumpTarget(insn, i) ==
    IF insn.op = "LOP_JUMP" THEN i + 1 + insn.d
    ELSE IF isFastCall(insn.op) THEN i + insn.c + 2
    ELSE -1

\* isBlockTerminator(cmd)
isBlockTerminator(cmd) == cmd \in {"JUMP", "LOP_RETURN"}

\* proto->code[i], i from 0
CodeAt(code, i) == code[i + 1]

\* the indices at which an instruction starts
RECURSIVE InstStartsFrom(_, _)
InstStartsFrom(code, i) ==
    IF i >= Len(code) THEN {}
    ELSE {i} \cup InstStartsFrom(code, i + getOpLength(CodeAt(code, i).op))

InstStarts(code) == InstStartsFrom(code, 0)

\* The bytecode a compiled function has: it ends with a return or a jump
\* back, jumps go to instructions of the function, a fastcall is followed by
\* its call and an instruction after it, a two-word instruction by its AUX.
WellFormed(code) ==
    LET starts == InstStarts(code)
        last == code[Len(code)]
    IN /\ Len(code) - 1 \in starts
       /\ last.op = "LOP_RETURN" \/ (last.op = "LOP_JUMP" /\ last.d < 0)
       /\ \A i \in 0..(Len(code) - 1) :
              LET insn == CodeAt(code, i)
              IN IF i \in starts
                 THEN /\ insn.op # "AUX"
                      /\ insn.op = "LOP_JUMP" => getJumpTarget(insn, i) \in starts
                      /\ insn.op = "LOP_FASTCALL2K" =>
                             i + 1 < Len(code) /\ CodeAt(code, i + 1).op = "AUX"
                      /\ isFastCall(insn.op) =>
                             /\ i + insn.c + 2 \in starts
                             /\ CodeAt(code, i + insn.c + 1).op = "LOP_CALL"
                 ELSE insn.op = "AUX"

Codes == UNION {{code \in [1..n -> Words] : WellFormed(code)} : n \in 1..MaxCode}

\* The IrBuilder with the loop variable i of buildFunctionIr; translated,
\* skipped and sinceBegin record what the loop did.
IrIdle ==
    [stage |-> "idle", code |-> <<>>, i |-> 0, instIndexToBlock |-> <<>>, bcMapping |-> <<>>,
     blocks |-> <<>>, instructions |-> <<>>, inTerminatedBlock |-> FALSE,
     activeFastcallFallback |-> FALSE, fastcallFallbackReturn |-> NoOp, ret |-> NoOp,
     failed |-> {}, undefinedBack |-> FALSE,
     translated |-> <<>>, skipped |-> {}, sinceBegin |-> <<>>]

irAssert(b, cond, what) == IF cond THEN b ELSE [b EXCEPT !.failed = @ \cup {what}]

\* inst(cmd, a, ...): the operands after the first are left out
inst(b, cmd, a) ==
    [b EXCEPT !.instructions = Append(@, [cmd |-> cmd, a |-> a]),
              !.inTerminatedBlock = IF isBlockTerminator(cmd) THEN TRUE ELSE @,
              !.sinceBegin = Append(@, cmd),
              !.ret = [kind |-> "Inst", index |-> Len(b.instructions)]]

block(b, kind) ==
    LET kind1 == IF kind = "Internal" /\ b.activeFastcallFallback THEN "Fallback" ELSE kind
    IN [b EXCEPT !.blocks = Append(@, [kind |-> kind1, start |-> NoStart]),
                 !.ret = BlockOp(Len(b.blocks))]

blockAtInst(b, index) ==
    LET blockIndex == b.instIndexToBlock[index + 1]
    IN IF blockIndex # kNoAssociatedBlockIndex THEN [b EXCEPT !.ret = BlockOp(blockIndex)]
       ELSE block(b, "Internal")

beginBlock(b, blockOp) ==
    LET target == b.blocks[blockOp.index + 1]
        b1 == irAssert(b, target.start = NoStart \/ target.start = Len(b.instructions),
                       "beginBlock: target.start")
    IN [b1 EXCEPT !.blocks[blockOp.index + 1].start = Len(b.instructions),
                  !.inTerminatedBlock = FALSE,
                  !.sinceBegin = <<>>]

\* LOP_CALL: the call, and the end of a fastcall's fallback
translateCall(b) ==
    LET b1 == inst(b, "LOP_CALL", NoOp)
    IN IF b1.activeFastcallFallback
       THEN [beginBlock(inst(b1, "JUMP", b1.fastcallFallbackReturn), b1.fastcallFallbackReturn)
                EXCEPT !.activeFastcallFallback = FALSE]
       ELSE b1

\* LOP_FASTCALL, LOP_FASTCALL2K: the builtin, a jump over the fallback, and
\* the fallback block that the instructions up to the call fill
translateFastCall(b, insn, i) ==
    LET skip == insn.c
        b1 == block(b, "Fallback")
        fallback == b1.ret
        b2 == blockAtInst(b1, i + skip + 2)
        nextOp == b2.ret
        b3 == irAssert(b2, CodeAt(b.code, i + skip + 1).op = "LOP_CALL", "LOP_FASTCALL: call")
        b4 == inst(b3, insn.op, fallback)
        b5 == inst(b4, "JUMP", nextOp)
        b6 == beginBlock(b5, fallback)
    IN [b6 EXCEPT !.activeFastcallFallback = TRUE, !.fastcallFallbackReturn = nextOp]

\* translateInstJump
translateInstJump(b, insn, i) ==
    LET b1 == blockAtInst(b, i + 1 + insn.d)
    IN inst(b1, "JUMP", b1.ret)

translateInst(b, insn, i) ==
    CASE insn.op = "LOP_NOP" -> b
      [] insn.op = "LOP_CALL" -> translateCall(b)
      [] insn.op = "LOP_RETURN" -> inst(b, "LOP_RETURN", NoOp)
      [] insn.op = "LOP_JUMP" -> translateInstJump(b, insn, i)
      [] isFastCall(insn.op) -> translateFastCall(b, insn, i)
      [] insn.op = "LOP_COVERAGE" -> inst(b, "LOP_COVERAGE", NoOp)
      [] OTHER -> irAssert(b, FALSE, "unknown instruction")

\* the first loop of rebuildBytecodeBasicBlocks: jumpTargets
jumpTargetsOf(code) ==
    {getJumpTarget(CodeAt(code, i), i) : i \in {j \in InstStarts(code) :
        getJumpTarget(CodeAt(code, j), j) >= 0 /\ ~isFastCall(CodeAt(code, j).op)}}

rebuildBytecodeBasicBlocks(b) ==
    LET jumpTargets == jumpTargetsOf(b.code) \cup {0}
        b0 == [b EXCEPT !.instIndexToBlock = [i \in 1..Len(b.code) |-> kNoAssociatedBlockIndex]]
        F[i \in 0..Len(b.code)] ==
            IF i = 0 THEN b0
            ELSE IF (i - 1) \in jumpTargets
            THEN LET b1 == block(F[i - 1], "Bytecode")
                 IN [b1 EXCEPT !.instIndexToBlock[i] = b1.ret.index]
            ELSE F[i - 1]
    IN F[Len(b.code)]

\* what instructions.back() of an empty vector gives: a fault, or a command
\* made of the bytes read
BackOutcomes == {"fault", "JUMP", "LOP_COVERAGE"}

\* the end of an iteration of buildFunctionIr's loop: a block that starts at
\* the next instruction is jumped to unless the last instruction ends a block
fallthrough(b, i, outcome) ==
    IF i < Len(b.instIndexToBlock) /\ b.instIndexToBlock[i + 1] # kNoAssociatedBlockIndex
    THEN IF b.instructions = <<>>
         THEN IF outcome = "fault" THEN [b EXCEPT !.stage = "fault", !.undefinedBack = TRUE]
              ELSE IF ~isBlockTerminator(outcome)
              THEN LET b1 == blockAtInst([b EXCEPT !.undefinedBack = TRUE], i)
                   IN inst(b1, "JUMP", b1.ret)
              ELSE [b EXCEPT !.undefinedBack = TRUE]
         ELSE IF ~isBlockTerminator(b.instructions[Len(b.instructions)].cmd)
         THEN LET b1 == blockAtInst(b, i)
              IN inst(b1, "JUMP", b1.ret)
         ELSE b
    ELSE b

\* one iteration of the loop over the instructions
translateNext(b, outcome) ==
    LET i == b.i
        insn == CodeAt(b.code, i)
        nexti == i + getOpLength(insn.op)
        b1 == irAssert(b, nexti <= Len(b.code), "nexti <= proto->sizecode")
        b2 == [b1 EXCEPT !.bcMapping[i + 1] = Len(b.instructions)]
        b3 == IF b2.instIndexToBlock[i + 1] # kNoAssociatedBlockIndex
              THEN With(blockAtInst(b2, i), LAMBDA a : beginBlock(a, a.ret))
              ELSE b2
        b4 == IF ~b3.inTerminatedBlock
              THEN translateInst([b3 EXCEPT !.translated =
                                      Append(@, [i |-> i, sinceBegin |-> b3.sinceBegin])],
                                 insn, i)
              ELSE [b3 EXCEPT !.skipped = @ \cup {i}]
    IN fallthrough([b4 EXCEPT !.i = nexti], nexti, outcome)


Init ==
    /\ program \in Programs
    /\ limit \in {SmallLimit, LargeLimit}
    /\ noDefs \in {{}, {"nd"}}
    /\ ub \in {0, anyType}
    /\ negatedClassTypes \in BOOLEAN
    /\ pc = "start" /\ next = 1
    /\ types = BuiltinTypes /\ typePacks = BuiltinPacks
    /\ scopes = <<GlobalScope>>
    /\ constraints = <<>> /\ errors = <<>>
    /\ astTypes = EmptyMap /\ astTypePacks = EmptyMap /\ astScopes = EmptyMap
    /\ astExpectedTypes = EmptyMap /\ astOriginalCallTypes = EmptyMap
    /\ astResolvedTypes = EmptyMap /\ declaredGlobals = EmptyMap /\ aliasScopes = EmptyMap
    /\ recursionCount = 0 /\ thrown = FALSE /\ asserts = {} /\ log = EmptyLog
    /\ ir = IrIdle

\* visit(AstStatBlock*) up to the loop over the statements of the program:
\* the root scope, the global functions, the aliases of the root block.
Start ==
    /\ pc = "start"
    /\ LET s0 == luauAssert(State, Len(scopes) = 1, "visit(AstStatBlock*): scopes.empty()")
           s1 == [s0 EXCEPT !.scopes = Append(@, [Scope(globalScope, program.id) EXCEPT
                                                     !.returnType = s0.scopes[globalScope].returnType]),
                            !.astScopes = Put(@, program.id, rootScope)]
           s2 == freshTypePack(s1, rootScope)
           s3 == With(s2, LAMBDA s2_ : [s2_ EXCEPT !.scopes[rootScope].returnType = lastPack(s2_)])
           s4 == prepopulateGlobalScope(s3, rootScope, program)
           s5 == enter(s4)
           tooComplex == With(s5, LAMBDA s5_ : s5_.recursionCount >= s5_.limit)
       IN /\ <<s0, s1, s2, s3, s4, s5>> # <<>>
          /\ Commit(IF tooComplex THEN reportCodeTooComplex(s5, program.id)
                    ELSE aliasPrepass(s5, rootScope, program))
          /\ next' = IF tooComplex THEN Len(program.body) + 1 ELSE 1
    /\ pc' = "body"

\* one iteration of the loop at the end of visitBlockWithoutChildScope
VisitNext ==
    /\ pc = "body" /\ ~thrown /\ next <= Len(program.body)
    /\ Commit(visit(State, rootScope, program.body[next]))
    /\ next' = next + 1
    /\ pc' = pc

\* the loop is over, or an exception unwinds: the RecursionCounter is released
Finish ==
    /\ pc = "body" /\ (thrown \/ next > Len(program.body))
    /\ Commit(leave(State))
    /\ pc' = "done"
    /\ next' = next

Next == Start \/ VisitNext \/ Finish

Spec == Init /\ [][Next]_vars

(***************************************************************************)
(* The state machine of buildFunctionIr.                                   *)
(***************************************************************************)
cgbVars == <<program, limit, noDefs, ub, negatedClassTypes, pc, next, types, typePacks,
             scopes, constraints, errors, astTypes, astTypePacks, astScopes, astExpectedTypes,
             astOriginalCallTypes, astResolvedTypes, declaredGlobals, aliasScopes,
             recursionCount, thrown, asserts, log>>

\* a builder that is handed a Proto; the constraint graph builder has
\* nothing to visit
IrInit ==
    /\ program = SBlock("root", <<>>)
    /\ limit = LargeLimit /\ noDefs = {} /\ ub = 0 /\ negatedClassTypes = FALSE
    /\ pc = "done" /\ next = 1
    /\ types = BuiltinTypes /\ typePacks = BuiltinPacks
    /\ scopes = <<GlobalScope>>
    /\ constraints = <<>> /\ errors = <<>>
    /\ astTypes = EmptyMap /\ astTypePacks = EmptyMap /\ astScopes = EmptyMap
    /\ astExpectedTypes = EmptyMap /\ astOriginalCallTypes = EmptyMap
    /\ astResolvedTypes = EmptyMap /\ declaredGlobals = EmptyMap /\ aliasScopes = EmptyMap
    /\ recursionCount = 0 /\ thrown = FALSE /\ asserts = {} /\ log = EmptyLog
    /\ \E code \in Codes : ir = [IrIdle EXCEPT !.stage = "rebuild", !.code = code]

\* buildFunctionIr up to its loop
Rebuild ==
    /\ ir.stage = "rebuild"
    /\ ir' = [rebuildBytecodeBasicBlocks(ir) EXCEPT
                  !.stage = "translate",
                  !.bcMapping = [i \in 1..Len(ir.code) |-> kNoAssociatedBlockIndex]]
    /\ UNCHANGED cgbVars

\* an iteration of the loop
TranslateNext ==
    /\ ir.stage = "translate" /\ ir.i < Len(ir.code)
    /\ \E outcome \in BackOutcomes : ir' = translateNext(ir, outcome)
    /\ UNCHANGED cgbVars

\* updateUseCounts(function)
UpdateUseCounts ==
    /\ ir.stage = "translate" /\ ir.i >= Len(ir.code)
    /\ ir' = [ir EXCEPT !.stage = "done"]
    /\ UNCHANGED cgbVars

IrNext == Rebuild \/ TranslateNext \/ UpdateUseCounts

IrSpec == IrInit /\ [][IrNext]_vars


(***************************************************************************)
(* Properties.                                                             *)
(***************************************************************************)
Done == pc = "done" /\ ~thrown

\* the positions of the constraint list, and the calls recorded so far
Positions == DOMAIN constraints

Calls == Range(log.calls)

\* the constraints at the positions lo+1 .. hi, in order
Emitted(lo, hi) == [n \in 1..(IF hi > lo THEN hi - lo ELSE 0) |-> constraints[lo + n].cid]

IsPrefix(p, q) == Len(p) <= Len(q) /\ SubSeq(q, 1, Len(p)) = p

\* a call whose constraints all lie among those of the arguments of outer
NestedInArguments(inner, outer) ==
    /\ inner # outer
    /\ inner.startCheckpoint >= outer.argCheckpoint
    /\ inner.argEndCheckpoint <= outer.argEndCheckpoint

\* C1: every dependency of a constraint sits at a strictly smaller position
\* of the constraint list than the constraint itself, so the dependency
\* graph has no cycle.
C1_DependenciesPrecede ==
    \A i \in Positions : \A k \in DOMAIN constraints[i].deps :
        \E j \in 1..(i - 1) : constraints[j].cid = constraints[i].deps[k]

\* a finished traversal with a call nested in the arguments of another call
\* and a Generalization constraint, each with dependencies
C1_Witness ==
    /\ Done
    /\ \E inner, outer \in Calls :
          /\ NestedInArguments(inner, outer)
          /\ inner.fcc # 0 /\ constraints[inner.fcc].deps # <<>>
          /\ outer.fcc # 0 /\ constraints[outer.fcc].deps # <<>>
    /\ \E i \in Positions : constraints[i].kind = "Generalization" /\ constraints[i].deps # <<>>

\* C2: the constraint list only grows at its end: a step keeps every entry
\* at its position (only its dependencies may grow), each entry sits at the
\* position it was appended at, and forEachConstraint(start, end) gave
\* exactly the constraints appended between the two checkpoints, in order.
Entry(c) == [c EXCEPT !.deps = <<>>]

AppendOnly ==
    /\ Len(constraints') >= Len(constraints)
    /\ \A i \in Positions :
          /\ Entry(constraints'[i]) = Entry(constraints[i])
          /\ IsPrefix(constraints[i].deps, constraints'[i].deps)

InsertionOrdered == \A i \in Positions : constraints[i].cid = i

CheckpointRanges ==
    \A e \in Calls :
        /\ e.startCheckpoint <= e.fnEndCheckpoint /\ e.fnEndCheckpoint <= e.argCheckpoint
        /\ e.argCheckpoint <= e.argEndCheckpoint /\ e.argEndCheckpoint <= Len(constraints)
        /\ IsPrefix([n \in 1..(e.fnEndCheckpoint - e.startCheckpoint) |-> e.startCheckpoint + n],
                    constraints[e.extractArgs].deps)
        /\ e.fcc # 0 =>
              IsPrefix([n \in 1..(e.argEndCheckpoint - e.fnEndCheckpoint) |-> e.fnEndCheckpoint + n],
                       constraints[e.fcc].deps)

C2_AppendOnly == [][AppendOnly /\ InsertionOrdered' /\ CheckpointRanges']_vars

\* a step has appended to a list that was not empty, and a call's callee
\* emitted several constraints between its two checkpoints
C2_Witness ==
    /\ pc = "body" /\ next > 2 /\ Len(constraints) > 3
    /\ \E e \in Calls : e.fnEndCheckpoint > e.startCheckpoint + 1

\* C3: every expression handed to check, checkPack or checkLValue has an
\* entry in astTypes when the traversal ends.
C3_VisitedHaveTypes ==
    pc = "done" => \A e \in log.visited : Has(astTypes, e)

\* C4: every scope that childScope(n, parent) created is the scope astScopes
\* records for n, has parent as its parent, and is among parent's children.
ChildScopes == (rootScope + 1)..Len(scopes)

C4_ChildScopesRecorded ==
    Done /\ limit = LargeLimit =>
        \A sc \in ChildScopes :
            /\ Has(astScopes, scopes[sc].node) /\ astScopes[scopes[sc].node] = sc
            /\ scopes[sc].parent \in 1..(sc - 1)
            /\ sc \in Range(scopes[scopes[sc].parent].children)

\* the statements of a block and of the blocks, loops, branches and error
\* statements nested in it
RECURSIVE statementsIn(_)
statementsIn(stat) ==
    {stat} \cup
    (CASE stat.k = "Block" -> UNION {statementsIn(stat.body[i]) : i \in DOMAIN stat.body}
       [] stat.k = "StatError" ->
            UNION {statementsIn(stat.statements[i]) : i \in DOMAIN stat.statements}
       [] stat.k = "If" -> statementsIn(stat.thenbody) \cup statementsIn(stat.elsebody)
       [] stat.k \in {"While", "Repeat", "For", "ForIn"} -> statementsIn(stat.body)
       [] OTHER -> {})

Aliases == {st \in statementsIn(program) : st.k = "TypeAlias"}

\* an alias statement whose name no other alias statement of the program declares
NonDuplicate(alias) == \A other \in Aliases : other.name = alias.name => other = alias

Rewrites(alias) == {r \in Range(log.rewrites) : r.alias = alias.id}

OccursCheckFailures(alias) ==
    {i \in DOMAIN errors : errors[i].kind = "OccursCheckFailed" /\ errors[i].loc = alias.id}

NameConstraints(alias) ==
    {i \in Positions : constraints[i].kind = "Name" /\ constraints[i].name = alias.name
                       /\ constraints[i].loc = alias.type.id}

\* C5: every non-duplicate alias statement has its head rewritten, to
\* Bound(RHS) without an OccursCheckFailed error when the head does not occur
\* in the resolved right-hand side and to Bound(any) with exactly one such
\* error when it does; the traversal goes on and a Name constraint is emitted.
C5_AliasHeadBound ==
    Done /\ limit = LargeLimit =>
        \A alias \in Aliases : NonDuplicate(alias) =>
            /\ \E r \in Rewrites(alias) :
                  /\ types[r.head] = BoundTy(IF r.occurs THEN anyType ELSE r.ty)
                  /\ Cardinality(OccursCheckFailures(alias)) = (IF r.occurs THEN 1 ELSE 0)
            /\ NameConstraints(alias) # {}

\* the declared classes of the program and the properties a class declares twice
DeclaredClasses == {st \in Range(program.body) : st.k = "DeclareClass"}

Twice(class) ==
    {p \in (DOMAIN class.props) \X (DOMAIN class.props) :
        /\ p[1] < p[2] /\ class.props[p[1]].name = class.props[p[2]].name
        /\ Cardinality({i \in DOMAIN class.props : class.props[i].name = class.props[p[1]].name}) = 2}

ClassOf(class) == scopes[rootScope].exportedTypeBindings[class.name].type

MetatableOf(class) == types[types[ClassOf(class)].parts[2]]

\* C8: a metamethod that a declared class declares twice, with the function
\* types F1 then F2, is the Intersection{F1, F2} in the class's metatable.
C8_DuplicateMetamethodIntersected ==
    Done /\ limit = LargeLimit =>
        \A class \in DeclaredClasses : \A p \in Twice(class) :
            LET name == class.props[p[1]].name
                F1 == astResolvedTypes[class.props[p[1]].ty.id]
                F2 == astResolvedTypes[class.props[p[2]].ty.id]
            IN isMetamethod(name) /\ types[F1].tag = "Function" /\ types[F2].tag = "Function" =>
                  /\ Has(MetatableOf(class).props, name)
                  /\ types[MetatableOf(class).props[name]] = IntersectionTy(<<F1, F2>>)

\* the same for a method that is no metamethod: it is kept in the class itself
MethodsIntersected ==
    Done /\ limit = LargeLimit =>
        \A class \in DeclaredClasses : \A p \in Twice(class) :
            LET name == class.props[p[1]].name
                F1 == astResolvedTypes[class.props[p[1]].ty.id]
                F2 == astResolvedTypes[class.props[p[2]].ty.id]
            IN ~isMetamethod(name) /\ types[F1].tag = "Function" /\ types[F2].tag = "Function" =>
                  /\ Has(types[ClassOf(class)].props, name)
                  /\ types[types[ClassOf(class)].props[name]] = IntersectionTy(<<F1, F2>>)

\* the repeat statements of the program whose condition names a local of the body
RepeatsOnBodyLocal ==
    {st \in Range(program.body) :
        st.k = "Repeat" /\ st.condition.k = "Local" /\ st.condition.local \in bodyLocals(st.body)}

RepeatEntry(st) == CHOOSE r \in Range(log.repeats) : r.repeat = st.id

\* C9: the condition of repeat ... until c is checked in a scope in which
\* the locals of the body are bound: a local of the body that c names
\* resolves to its binding, not to the error-recovery type.
C9_ConditionSeesBodyLocals ==
    Done /\ limit = LargeLimit =>
        /\ \A r \in Range(log.repeats) : \A l \in r.bodyLocals :
              lookup(State, r.scope, LSym(l)) # 0
        /\ \A st \in RepeatsOnBodyLocal :
              follow(State, astTypes[st.condition.id]) # errorRecoveryType

\* C6: an alias head that the prepass allocated is rewritten at most once,
\* and it is Blocked when visit(AstStatTypeAlias*) rewrites it: the
\* assertion get<BlockedType>(aliasTy) never fails, and a rewritten head is
\* not written again.
HeadsRewrittenOnce ==
    /\ \A r \in Range(log.rewrites) : r.blocked
    /\ \A i, j \in DOMAIN log.rewrites : i # j => log.rewrites[i].head # log.rewrites[j].head
    /\ "visit(AstStatTypeAlias*): aliasTy is blocked" \notin asserts

HeadsKept == \A r \in Range(log.rewrites) : types'[r.head] = types[r.head]

C6_HeadsRewrittenOnce == [][HeadsRewrittenOnce' /\ HeadsKept]_vars

\* a traversal that met a duplicate alias, an alias in an error statement and
\* an alias whose head occurs in its right-hand side, and rewrote several heads
C6_Witness ==
    /\ Done /\ Len(log.rewrites) >= 3
    /\ \E a \in Aliases : a \notin Range(program.body) /\ Rewrites(a) = {}
    /\ \E i, j \in DOMAIN errors :
          errors[i].kind = "DuplicateTypeDefinition" /\ errors[j].kind = "OccursCheckFailed"

\* C7: the forwarding chain of Bound types and of BoundPack packs that starts
\* at any node of the arena ends at a node that forwards no further.
C7_ForwardingAcyclic ==
    /\ \A t \in DOMAIN types : types[follow(State, t)].tag # "Bound"
    /\ \A p \in DOMAIN typePacks : typePacks[followPack(State, p)].tag # "BoundPack"

\* the aliases type A = B; type B = A were bound, the second to any, and a
\* chain of two Bound nodes exists
C7_Witness ==
    /\ Done /\ program = ProgAliasCycle
    /\ \E r1, r2 \in Range(log.rewrites) :
          /\ ~r1.occurs /\ r2.occurs /\ r1.ty = r2.head /\ r2.ty = r1.head
          /\ types[r1.head] = BoundTy(r2.head) /\ types[r2.head] = BoundTy(anyType)

\* a function's free return pack and a free expected type were bound
C7_PackWitness ==
    /\ Done
    /\ \E p \in DOMAIN typePacks : typePacks[p].tag = "BoundPack"
    /\ \E t \in DOMAIN types : types[t].tag = "Bound"

\* the constraints that constraint c depends on, directly or through others
Dependencies(c) ==
    LET R[i \in 0..c] ==
            IF i = 0 THEN {}
            ELSE UNION {{d} \cup (IF d < i THEN R[d] ELSE {}) : d \in Range(constraints[i].deps)}
    IN R[c]

CalleeConstraints(e) == [n \in 1..(e.fnEndCheckpoint - e.startCheckpoint) |-> e.startCheckpoint + n]

EnclosingExtractArgs(e) == {o.extractArgs : o \in {o \in Calls : NestedInArguments(e, o)}}

\* a Subtype constraint that directly follows the Instantiation of its left-hand side
IsExtractArgs(d) ==
    /\ d > 1 /\ constraints[d].kind = "Subtype" /\ constraints[d - 1].kind = "Instantiation"
    /\ constraints[d].args[1] = constraints[d - 1].args[1]

InstantiationThenExtractArgs(e) ==
    /\ constraints[e.instantiation].kind = "Instantiation"
    /\ e.instantiation = e.fnEndCheckpoint + 1
    /\ e.extractArgs = e.instantiation + 1
    /\ constraints[e.extractArgs].kind = "Subtype"
    /\ constraints[e.extractArgs].args[1] = constraints[e.instantiation].args[1]

ArgumentsWaitForExtractArgs(e) ==
    \A i \in (e.argCheckpoint + 1)..e.argEndCheckpoint : e.extractArgs \in Range(constraints[i].deps)

FunctionCallWaits(e) ==
    e.fcc # 0 =>
        /\ constraints[e.fcc].kind = "FunctionCall"
        /\ \A i \in (e.fnEndCheckpoint + 1)..e.argEndCheckpoint : i \in Range(constraints[e.fcc].deps)

\* C10: for every call, (a) extractArgs directly follows the Instantiation
\* constraint and depends on the constraints of the callee, in order, and
\* beyond them only on the extractArgs constraints of the calls in whose
\* arguments the call stands; (b) every constraint of the arguments depends
\* on extractArgs; (c) the FunctionCall constraint depends on every
\* constraint between the end of the callee and the end of the arguments, so
\* that every constraint from the start of the callee to the end of the
\* arguments is a direct or transitive dependency of it.
C10_CallDependencies ==
    \A e \in Calls :
        /\ InstantiationThenExtractArgs(e)
        /\ IsPrefix(CalleeConstraints(e), constraints[e.extractArgs].deps)
        /\ \A k \in (Len(CalleeConstraints(e)) + 1)..Len(constraints[e.extractArgs].deps) :
              LET d == constraints[e.extractArgs].deps[k]
              IN /\ IsExtractArgs(d) /\ d <= e.startCheckpoint
                 /\ ~thrown => d \in EnclosingExtractArgs(e)
        /\ ArgumentsWaitForExtractArgs(e)
        /\ FunctionCallWaits(e)
        /\ e.fcc # 0 => (e.startCheckpoint + 1)..e.argEndCheckpoint \subseteq Dependencies(e.fcc)

\* a call in the arguments of assert(...): its extractArgs has the callee's
\* constraint and the enclosing extractArgs as dependencies, and assert's
\* refinement constraints stand between its arguments and its FunctionCall
C10_Witness ==
    /\ Done
    /\ \E inner, outer \in Calls :
          /\ NestedInArguments(inner, outer)
          /\ inner.fnEndCheckpoint > inner.startCheckpoint
          /\ Len(constraints[inner.extractArgs].deps) > Len(CalleeConstraints(inner))
          /\ inner.fcc # 0
          /\ outer.fcc > outer.argEndCheckpoint + 1

\* C10 as stated: the dependencies of extractArgs are exactly the callee's
\* constraints, and every constraint produced for the call, up to the
\* FunctionCall constraint, is a direct or transitive dependency of it.
C10_AsStated ==
    \A e \in Calls :
        /\ InstantiationThenExtractArgs(e)
        /\ constraints[e.extractArgs].deps = CalleeConstraints(e)
        /\ ArgumentsWaitForExtractArgs(e)
        /\ FunctionCallWaits(e)
        /\ e.fcc # 0 => (e.startCheckpoint + 1)..(e.fcc - 1) \subseteq Dependencies(e.fcc)

\* the local function statements the traversal visited, and those of the
\* program that stand outside function bodies
LocalFunctions == Range(log.functions)

Generalizations(head) ==
    {i \in Positions : constraints[i].kind = "Generalization" /\ constraints[i].args[1] = head}

\* C11: every local function statement emits exactly one constraint
\* Generalization(head, signature), whose head is the Blocked type bound to
\* the function's name in the enclosing scope; it is appended after the
\* constraints of the body and depends on every one of them.
C11_LocalFunctionGeneralized ==
    Done =>
        /\ \A st \in statementsIn(program) : st.k = "LocalFunction" =>
              Cardinality({i \in DOMAIN log.functions : log.functions[i].function = st.id}) = 1
        /\ \A f \in LocalFunctions :
              /\ Generalizations(f.head) = {f.generalization}
              /\ constraints[f.generalization].args = <<f.head, f.signature>>
              /\ types[f.head].tag = "Blocked"
              /\ scopes[f.scope].bindings[LSym(f.name)] = f.head
              /\ f.start <= f.end /\ f.generalization = f.end + 1
              /\ (f.start + 1)..f.end \subseteq Range(constraints[f.generalization].deps)

\* a local function whose body holds a local function and a call
C11_Witness ==
    /\ Done
    /\ \E f, g \in LocalFunctions :
          /\ f.start <= g.start /\ g.generalization <= f.end
          /\ \E e \in Calls : f.start <= e.startCheckpoint /\ e.fcc # 0 /\ e.fcc <= f.end
          /\ Cardinality(Range(constraints[f.generalization].deps)) > 4

\* the calls matched as setmetatable(t, mt)
MetatableCalls == {e \in Calls : matchSetmetatable(e.node)}

\* the type of the i-th argument: what check gave for it, or the first type
\* of the pack that checkPack gave for a tail call (0 when it has none)
TypeOfArgument(e, i) ==
    IF i <= Len(e.args) THEN e.args[i] ELSE first(State, e.argTail)

MetatableOfCall(e) == MetatableTy(TypeOfArgument(e, 1), TypeOfArgument(e, 2))

ResultOf(e) == typePacks[e.result]

\* C12: a call matched as setmetatable(t, mt) appends no FunctionCall
\* constraint; its result is a pack of one type, a new Metatable{type(t),
\* type(mt)}; and when t is a local, the binding of t and the refinement of
\* t's definition, looked up from the calling scope after the call, are that
\* type.
C12_SetmetatableRebinds ==
    Done =>
        \A e \in MetatableCalls :
            /\ e.fcc = 0
            /\ \A i \in Positions : constraints[i].kind = "FunctionCall" => constraints[i].loc # e.node.func.id
            /\ ResultOf(e).tag = "Pack" /\ Len(ResultOf(e).head) = 1 /\ ResultOf(e).tail = 0
            /\ TypeOfArgument(e, 1) # 0 /\ TypeOfArgument(e, 2) # 0
            /\ types[ResultOf(e).head[1]] = MetatableOfCall(e)
            /\ e.node.args[1].k = "Local" => e.binding = ResultOf(e).head[1]
            /\ getDef(State, e.node.args[1]) # NoDef => e.refinement = ResultOf(e).head[1]

\* the same for the calls whose second argument is no call and no `...`
SetmetatableOfValues ==
    Done =>
        \A e \in MetatableCalls : e.node.args[2].k \notin {"Call", "Varargs"} =>
            /\ e.fcc = 0
            /\ ResultOf(e).tag = "Pack" /\ Len(ResultOf(e).head) = 1 /\ ResultOf(e).tail = 0
            /\ types[ResultOf(e).head[1]] = MetatableOfCall(e)
            /\ e.node.args[1].k = "Local" => e.binding = ResultOf(e).head[1]
            /\ getDef(State, e.node.args[1]) # NoDef => e.refinement = ResultOf(e).head[1]


\* C13: for every call matched as assert(p, ...) whose first argument yields a
\* non-null refinement r, applyRefinements is invoked with r on the calling
\* scope itself before the FunctionCall constraint is emitted, and every
\* definition refined by r then has, in that scope, the type
\* Intersection(previous type, discriminant).
Assertions == Range(log.assertions)

RefinedByAssertion(a, def) ==
    /\ a.before[def] # 0
    /\ def \in a.own
    /\ a.after[def] # 0
    /\ types[a.after[def]] = IntersectionTy(<<a.before[def], a.discriminants[def]>>)

BeforeFunctionCall(a) ==
    \A e \in Calls : e.call = a.call => e.scope = a.scope /\ a.end < e.fcc

C13_AssertRefinesCallingScope ==
    \A a \in Assertions :
        a.refinement.r # "None" =>
            /\ ~a.thrown
            /\ BeforeFunctionCall(a)
            /\ \A def \in DOMAIN a.discriminants : RefinedByAssertion(a, def)

\* The same for the assertions on a definition that has a type in the scope
\* of the call.
AssertOfTypedDefinitions ==
    \A a \in Assertions :
        (a.refinement.r # "None" /\ \A def \in DOMAIN a.before : a.before[def] # 0) =>
            /\ ~a.thrown
            /\ BeforeFunctionCall(a)
            /\ \A def \in DOMAIN a.discriminants : RefinedByAssertion(a, def)


\* C14: for `if c then A else B` where checking c yields a refinement r, A is
\* visited under a fresh child scope in which every definition refined by r
\* maps to Intersection(current type, discriminant of r), and B under another
\* fresh child scope in which those definitions map to
\* Intersection(current type, discriminant of negation(r)); for
\* type(v) == "number" the discriminants are number and Negation(number).
Branches == Range(log.branches)

RefinedInBranch(b, def) ==
    /\ b.before[def] # 0
    /\ def \in b.own
    /\ b.after[def] # 0
    /\ types[b.after[def]] = IntersectionTy(<<b.before[def], b.discriminants[def]>>)

BranchScope(b) ==
    /\ b.fresh
    /\ scopes[b.scope].parent = b.parent
    /\ ~thrown => \/ astScopes[b.body] = b.scope
                  \/ scopes[astScopes[b.body]].parent = b.scope

NegatedInElse(b) ==
    \A a \in Branches :
        (a.stat = b.stat /\ a.branch = "then" /\ b.branch = "else"
            /\ a.refinement.r = "Proposition") =>
            /\ a.scope # b.scope
            /\ DOMAIN b.discriminants = DOMAIN a.discriminants
            /\ \A def \in DOMAIN a.discriminants :
                   /\ a.discriminants[def] = a.refinement.discriminantTy
                   /\ types[b.discriminants[def]] = NegationTy(a.refinement.discriminantTy)
                   /\ b.before[def] = a.before[def]

C14_BranchesRefined ==
    \A b \in Branches :
        b.refinement.r # "None" =>
            /\ ~b.thrown
            /\ BranchScope(b)
            /\ NegatedInElse(b)
            /\ \A def \in DOMAIN b.discriminants : RefinedInBranch(b, def)

\* The same for the conditions on definitions that have a type in scope.
BranchesOfTypedDefinitions ==
    \A b \in Branches :
        (b.refinement.r # "None" /\ \A def \in DOMAIN b.before : b.before[def] # 0) =>
            /\ ~b.thrown
            /\ BranchScope(b)
            /\ NegatedInElse(b)
            /\ \A def \in DOMAIN b.discriminants : RefinedInBranch(b, def)


\* C15: applying applyRefinements twice in a row with the same scope and the
\* same refinement leaves the same set of refined definitions in
\* scope.dcrRefinements as one application, and each refined type is
\* semantically equal to the one after the first application (Intersection
\* read as set intersection).
SingletonOrTopOf(ty) ==
    {c \in Range(constraints) : c.kind = "SingletonOrTopType" /\ c.args[1] = ty}

\* The conjuncts of a type: an Intersection is the set of the conjuncts of
\* its parts, a Negation or a Union is one conjunct made of the conjuncts
\* below it, a blocked discriminant is what its SingletonOrTopType constraint
\* makes of it.
RECURSIVE Conjuncts(_)
Conjuncts(ty) ==
    LET t == types[ty]
    IN IF t.tag = "Intersection" THEN UNION {Conjuncts(t.parts[i]) : i \in DOMAIN t.parts}
       ELSE IF t.tag = "Negation" THEN {<<"not", Conjuncts(t.parts[1])>>}
       ELSE IF t.tag = "Union" THEN {<<"or", {Conjuncts(t.parts[i]) : i \in DOMAIN t.parts}>>}
       ELSE IF t.tag = "Blocked" /\ SingletonOrTopOf(ty) # {}
       THEN {<<"singletonOrTop", Conjuncts(c.args[2]), c.name>> : c \in SingletonOrTopOf(ty)}
       ELSE {<<"type", ty>>}

InARow(a, b) ==
    /\ \E i \in DOMAIN log.assertions :
           i + 1 \in DOMAIN log.assertions /\ log.assertions[i] = a /\ log.assertions[i + 1] = b
    /\ a.scope = b.scope
    /\ a.refinement = b.refinement
    /\ a.refinement.r # "None"
    /\ ~a.thrown
    /\ b.refinedBefore = a.refinedAfter

C15_ApplyTwiceIdempotent ==
    \A a, b \in Assertions :
        InARow(a, b) =>
            /\ ~b.thrown
            /\ DOMAIN b.refinedAfter = DOMAIN a.refinedAfter
            /\ DOMAIN b.after = DOMAIN a.after
            /\ \A def \in DOMAIN a.after :
                   b.after[def] # 0 /\ Conjuncts(b.after[def]) = Conjuncts(a.after[def])

C15_Witness ==
    /\ Done
    /\ \E a, b \in Assertions :
           /\ InARow(a, b)
           /\ \E def \in DOMAIN a.after : b.after[def] # a.after[def]
           /\ a.refinement.r = "Negation"


\* C16: immediately after a local statement has been visited, every declared
\* variable whose definition the data-flow graph knows has
\* scope.dcrRefinements[def(x)] equal to scope.bindings[x].typeId, for every
\* combination of annotations, nil initializers, missing initializers and
\* tail call or vararg initializers.
Locals == Range(log.locals)

C16_RefinementIsBinding ==
    \A l \in Locals : \A i \in DOMAIN l.node.vars :
        /\ l.bindings[i] # 0
        /\ l.defs[i] # NoDef => l.refinements[i] = l.bindings[i]

Combination(l) ==
    [annotated |-> {i \in DOMAIN l.node.vars : l.node.vars[i].annotation.k # "None"},
     nils |-> {i \in DOMAIN l.node.values : l.node.values[i].k = "ConstantNil"},
     missing |-> {i \in DOMAIN l.node.vars : i > Len(l.node.values)},
     tail |-> l.node.values # <<>> /\ l.node.values[Len(l.node.values)].k \in {"Call", "Varargs"}]

C16_Witness ==
    /\ Done
    /\ \E l \in Locals : LET c == Combination(l)
                          IN c.annotated # {} /\ c.nils # {} /\ c.missing # {}
                             /\ \A i \in DOMAIN l.defs : l.defs[i] # NoDef
    /\ \E l \in Locals : LET c == Combination(l)
                          IN c.annotated # {} /\ c.tail /\ Len(l.node.vars) > 1
    /\ \E l \in Locals : Len(l.node.values) > Len(l.node.vars)


\* C17: a local statement `local x: T = e` with one annotated variable and
\* one initializer appends, itself, exactly one Subtype(type(e), T)
\* constraint when e is neither nil nor a call nor `...`; exactly one
\* PackSubtype(pack(e), (T)) and no Subtype when e is a call or `...`; and
\* neither when e is nil.
AnnotatedSingles ==
    {l \in Locals : Len(l.node.vars) = 1 /\ Len(l.node.values) = 1
                    /\ l.node.vars[1].annotation.k # "None"}

OwnConstraints(l, kind) ==
    {c \in (l.start + 1)..l.end : constraints[c].loc = l.stat /\ constraints[c].kind = kind}

TypeOfInitializer(l, ty) ==
    Has(astTypes, l.node.values[1].id) => ty = astTypes[l.node.values[1].id]

OneSubtype(l) ==
    /\ Cardinality(OwnConstraints(l, "Subtype")) = 1
    /\ \A c \in OwnConstraints(l, "Subtype") :
           /\ constraints[c].args[2] = l.bindings[1]
           /\ TypeOfInitializer(l, constraints[c].args[1])

OnePackSubtype(l) ==
    /\ Cardinality(OwnConstraints(l, "PackSubtype")) = 1
    /\ \A c \in OwnConstraints(l, "PackSubtype") :
           /\ typePacks[constraints[c].args[2]] = Pk("Pack", <<l.bindings[1]>>, 0)
           /\ TypeOfInitializer(l, first(State, constraints[c].args[1]))

C17_AnnotatedInitializer ==
    \A l \in AnnotatedSingles :
        LET e == l.node.values[1]
        IN IF e.k = "ConstantNil"
           THEN OwnConstraints(l, "Subtype") = {} /\ OwnConstraints(l, "PackSubtype") = {}
           ELSE IF e.k \in {"Call", "Varargs"}
           THEN OwnConstraints(l, "Subtype") = {} /\ OnePackSubtype(l)
           ELSE OneSubtype(l) /\ OwnConstraints(l, "PackSubtype") = {}

C17_Witness ==
    /\ Done
    /\ \E l \in AnnotatedSingles : l.node.values[1].k = "ConstantNil"
    /\ \E l \in AnnotatedSingles : l.node.values[1].k = "Call"
    /\ \E l \in AnnotatedSingles : l.node.values[1].k = "Varargs"
    /\ \E l \in AnnotatedSingles : l.node.values[1].k = "ConstantNumber" /\ OneSubtype(l)

\* C17 as stated: exactly one Subtype(type(e), T), whatever kind of
\* expression e is.
C17_AsStated == \A l \in AnnotatedSingles : OneSubtype(l)


\* C18: when check, checkPack or visitBlockWithoutChildScope is entered with
\* the recursion depth at or above the limit, exactly one CodeTooComplex
\* error is appended at the node's location, nothing below the node is
\* traversed, an expression yields errorRecovery, and the traversal of the
\* remaining siblings continues.
Limits == Range(log.limits)

OneCodeTooComplex(h) ==
    h.errorsAfter = Append(h.errorsBefore, [loc |-> h.node, kind |-> "CodeTooComplex"])

YieldsErrorRecovery(h) ==
    CASE h.kind = "check" -> h.ret.ty = errorRecoveryType
      [] h.kind = "checkPack" -> h.ret.tp = errorRecoveryTypePack
      [] OTHER -> TRUE

LimitReached(h) ==
    /\ h.count >= limit
    /\ OneCodeTooComplex(h)
    /\ h.after = h.before
    /\ YieldsErrorRecovery(h)
    /\ ~h.thrown

\* the traversal goes on after the limit was reached: no RecursionLimiter
\* unwinds it
SiblingsContinue == \A o \in Range(log.overflows) : o.limits = 0

C18_LimitReportedAndTraversalContinues ==
    /\ \A h \in Limits : LimitReached(h)
    /\ SiblingsContinue

\* What holds of every entry at the limit.
LimitReportedOnce == \A h \in Limits : LimitReached(h)


\* C19: when a block declares a type alias name that is already bound in the
\* exported or private type bindings of the current scope, the prepass
\* appends one DuplicateTypeDefinition error carrying the name and the
\* location of the first declaration, leaves the binding of the first
\* declaration unchanged and creates no definition scope; the visit of the
\* duplicate emits no Name constraint and rewrites no alias head; and the
\* lookup of the location of the first declaration never fails.
Duplicates == Range(log.duplicates)

\* the declaration of the name that the prepass of the scope gave a
\* definition scope
FirstDeclarations(d) ==
    {a \in DOMAIN aliasScopes :
        /\ scopes[aliasScopes[a]].parent = d.scope
        /\ scopes[aliasScopes[a]].node = a
        /\ \E b \in {d.bindingBefore.exported, d.bindingBefore.private} :
               b # NoTypeFun /\ \E r \in Range(log.rewrites) : r.alias = a /\ r.head = b.type}

DuplicateReported(d) ==
    /\ Len(d.errorsAfter) = Len(d.errorsBefore) + 1
    /\ SubSeq(d.errorsAfter, 1, Len(d.errorsBefore)) = d.errorsBefore
    /\ LET e == d.errorsAfter[Len(d.errorsAfter)]
       IN /\ e.kind = "DuplicateTypeDefinition" /\ e.loc = d.alias /\ e.name = d.node.name
          /\ (~thrown /\ pc = "done") => FirstDeclarations(d) = {e.previousLocation}
    /\ Cardinality({i \in DOMAIN errors : errors[i].kind = "DuplicateTypeDefinition"
                                           /\ errors[i].loc = d.alias}) = 1

DuplicateSkipped(d) ==
    /\ d.bindingAfter = d.bindingBefore
    /\ typeBindingsNamed(scopes[d.scope], d.node.name) = d.bindingBefore
    /\ d.scopesAfter = d.scopesBefore
    /\ ~Has(aliasScopes, d.alias)
    /\ \A sc \in DOMAIN scopes : scopes[sc].node # d.alias
    /\ \A c \in DOMAIN constraints : ~(constraints[c].kind = "Name" /\ constraints[c].loc = d.node.type.id)
    /\ \A r \in Range(log.rewrites) : r.alias # d.alias

C19_DuplicateAliasSkipped ==
    /\ "visitBlockWithoutChildScope: alias location" \notin asserts
    /\ \A d \in Duplicates :
           d.found /\ ~d.thrown /\ DuplicateReported(d) /\ DuplicateSkipped(d)

C19_Witness ==
    /\ Done
    /\ \E d, e \in Duplicates :
           /\ d.scope = e.scope /\ d.node.name = e.node.name
           /\ d.bindingBefore.exported # NoTypeFun
           /\ d.node.exported /\ ~e.node.exported
           /\ FirstDeclarations(d) # {}


\* C20: after a local statement whose i-th initializer is a one-argument
\* call to the global require and whose i-th variable is x, when the module
\* resolves scope.importedTypeBindings[x] contains every entry of the
\* module's exportedTypeBindings; the names of the other variables, and of
\* those whose module does not resolve, are left as they were.
IsRequire(e) ==
    e.k = "Call" /\ ~e.self /\ Len(e.args) = 1 /\ e.func.k = "Global" /\ e.func.name = "require"

RequiredModule(l, i) ==
    IF i <= Len(l.node.values) /\ IsRequire(l.node.values[i])
       /\ l.node.values[i].args[1].k = "Global" /\ l.node.values[i].args[1].name \in Modules
    THEN l.node.values[i].args[1].name ELSE ""

Importing(l) == {i \in DOMAIN l.node.vars : RequiredModule(l, i) # ""}

ContainsExports(bindings, module) ==
    \A name \in DOMAIN exportedTypeBindingsOf(module) :
        Has(bindings, name) /\ bindings[name] = exportedTypeBindingsOf(module)[name]

C20_RequireImports ==
    \A l \in Locals :
        /\ \A i \in Importing(l) :
               /\ Has(l.imported, l.node.vars[i].name)
               /\ ContainsExports(l.imported[l.node.vars[i].name], RequiredModule(l, i))
        /\ \A name \in DOMAIN l.importedBefore : Has(l.imported, name)
        /\ \A name \in DOMAIN l.imported \ {l.node.vars[i].name : i \in Importing(l)} :
               Has(l.importedBefore, name) /\ l.imported[name] = l.importedBefore[name]

C20_Witness ==
    /\ Done
    /\ \E l \in Locals : \E i, j \in Importing(l) :
           i > 1 /\ j = Len(l.node.values) /\ i < j
           /\ RequiredModule(l, i) # RequiredModule(l, j)
    /\ \E l \in Locals : Importing(l) = {} /\ l.importedBefore # EmptyMap
                          /\ IsRequire(l.node.values[1])
    /\ \E l \in Locals : Importing(l) = {} /\ l.importedBefore # EmptyMap
                          /\ l.node.values[1].k = "Call" /\ Len(l.node.values[1].args) = 2

\* C21: computeRefinement lowers Conjunction and Disjunction dually.
\* Conjunction at sense true and Disjunction at sense false fold both
\* children into the result map; Conjunction at sense false and Disjunction
\* at sense true lower each child into a side map and set, for every
\* definition in both side maps, result[k] to Union(lhs[k], rhs[k]) extended
\* with a prior result[k], a definition in one side map only contributing
\* nothing.  Lowering Negation(Conjunction(l, r)) gives the same definitions
\* with the same structure as lowering Disjunction(Negation(l), Negation(r)).
Conj(l, r) == [r |-> "Conjunction", lhs |-> l, rhs |-> r]
Disj(l, r) == [r |-> "Disjunction", lhs |-> l, rhs |-> r]
Neg(r) == [r |-> "Negation", refinement |-> r]

\* The structure of a type: the connectives down to the types that are not
\* connectives.
RECURSIVE Shape(_, _)
Shape(s, ty) ==
    LET t == s.types[ty]
    IN IF t.tag \in {"Union", "Intersection", "Negation"}
       THEN <<t.tag, [i \in DOMAIN t.parts |-> Shape(s, t.parts[i])]>>
       ELSE IF t.tag = "Blocked" THEN <<"Blocked">>
       ELSE <<"type", ty>>

Lowered(r, sense) == computeRefinement(RefAcc(State, EmptyMap, <<>>), r, sense, FALSE)

Shapes(acc) == [def \in DOMAIN acc.refis |-> Shape(acc.s, acc.refis[def])]

Propositions ==
    {proposition(<<d>>, ty) : d \in {"x", "y"}, ty \in {numberType, stringType}}

Literals == Propositions \cup {Neg(p) : p \in Propositions}

FoldsBoth(node, l, r, sense) ==
    LET n == Shapes(Lowered(node, sense))
        ls == Shapes(Lowered(l, sense))
        rs == Shapes(Lowered(r, sense))
    IN /\ DOMAIN n = DOMAIN ls \cup DOMAIN rs
       /\ \A k \in DOMAIN ls \ DOMAIN rs : n[k] = ls[k]
       /\ \A k \in DOMAIN rs \ DOMAIN ls : n[k] = rs[k]
       /\ \A k \in DOMAIN ls \cap DOMAIN rs : n[k] = <<"Intersection", <<rs[k], ls[k]>>>>

UnionsSides(node, l, r, sense) ==
    LET n == Shapes(Lowered(node, sense))
        ls == Shapes(Lowered(l, sense))
        rs == Shapes(Lowered(r, sense))
    IN /\ DOMAIN n = DOMAIN ls \cap DOMAIN rs
       /\ \A k \in DOMAIN n : n[k] = <<"Union", <<ls[k], rs[k]>>>>

\* a prior entry of the result map is the third part of the union
ExtendsPrior(p, l, r) ==
    LET n == Shapes(Lowered(Conj(p, Disj(l, r)), TRUE))
        ps == Shapes(Lowered(p, TRUE))
        ls == Shapes(Lowered(l, TRUE))
        rs == Shapes(Lowered(r, TRUE))
    IN \A k \in DOMAIN ps \cap DOMAIN ls \cap DOMAIN rs :
           n[k] = <<"Union", <<ls[k], rs[k], ps[k]>>>>

DeMorgan(l, r) ==
    Shapes(Lowered(Neg(Conj(l, r)), TRUE)) = Shapes(Lowered(Disj(Neg(l), Neg(r)), TRUE))

\* the refinements the traversal applied
Applied == {a.refinement : a \in Range(log.assertions) \cup Range(log.branches)}

AppliedDually ==
    \A a \in Range(log.assertions) \cup Range(log.branches) :
        LET shapes == [def \in DOMAIN a.discriminants |-> Shape(State, a.discriminants[def])]
            inner == a.refinement.refinement
        IN (a.refinement.r = "Negation" /\ inner.r = "Conjunction" /\ ~a.thrown) =>
               /\ shapes = Shapes(Lowered(Disj(Neg(inner.lhs), Neg(inner.rhs)), TRUE))
               /\ UnionsSides(inner, inner.lhs, inner.rhs, FALSE)

\* The lowering is evaluated on the arena the traversal leaves.
C21_ConjunctionDisjunctionDual ==
    /\ Done =>
           /\ \A l, r \in Literals :
                  /\ FoldsBoth(Conj(l, r), l, r, TRUE)
                  /\ FoldsBoth(Disj(l, r), l, r, FALSE)
                  /\ UnionsSides(Conj(l, r), l, r, FALSE)
                  /\ UnionsSides(Disj(l, r), l, r, TRUE)
                  /\ DeMorgan(l, r)
                  /\ DeMorgan(Conj(l, r), r)
           /\ \A p, l, r \in Propositions : ExtendsPrior(p, l, r)
    /\ ~thrown => AppliedDually

C21_Witness ==
    /\ Done
    /\ \E a, b \in Range(log.branches) :
           /\ a.refinement.r = "Negation" /\ a.refinement.refinement.r = "Conjunction"
           /\ b.refinement.r = "Disjunction"
           /\ DOMAIN a.discriminants # {}
           /\ \A def \in DOMAIN a.discriminants :
                  /\ types[a.discriminants[def]].tag = "Union"
                  /\ def \in DOMAIN b.discriminants
                  /\ Shape(State, a.discriminants[def]) = Shape(State, b.discriminants[def])

\* C22: lowering Proposition{def, discTy} yields discTy itself when sense is
\* true and eq is false, Negation(discTy) when sense is false and eq is
\* false, and when eq is true a fresh Blocked type with exactly one collected
\* SingletonOrTopType(blocked, discTy, negated = ~sense) constraint; the
\* result is stored for def, intersected with an entry already present for
\* def.  eq is true exactly for the propositions lowered underneath an
\* Equivalence node, also through nested Negation nodes.
Equiv(l, r) == [r |-> "Equivalence", lhs |-> l, rhs |-> r]

LoweredInto(refis, r, sense, eq) == computeRefinement(RefAcc(State, refis, <<>>), r, sense, eq)

\* the maps a proposition is lowered into: empty, holding its definition,
\* holding another definition
PriorMaps == {EmptyMap} \cup {Put(EmptyMap, <<d>>, booleanType) : d \in {"x", "y"}}

SingletonOrTop(blocked, discTy, sense) ==
    [kind |-> "SingletonOrTopType", args |-> <<blocked, discTy>>,
     name |-> IF ~sense THEN "negated" ELSE ""]

\* the refined type of the proposition p, the types it allocates first
RefinedType(acc, p, sense, eq) ==
    LET fresh == Len(types) + 1
    IN IF eq THEN /\ Len(acc.s.types) >= fresh
                  /\ acc.s.types[fresh] = BlockedTy
                  /\ acc.cs = <<SingletonOrTop(fresh, p.discriminantTy, sense)>>
       ELSE IF ~sense THEN /\ Len(acc.s.types) >= fresh
                           /\ acc.s.types[fresh] = NegationTy(p.discriminantTy)
                           /\ acc.cs = <<>>
       ELSE acc.cs = <<>>

Refined(p, sense, eq) == IF eq \/ ~sense THEN Len(types) + 1 ELSE p.discriminantTy

StoredFor(acc, prior, p, sense, eq) ==
    LET refined == Refined(p, sense, eq)
        allocated == IF eq \/ ~sense THEN 1 ELSE 0
    IN /\ DOMAIN acc.refis = DOMAIN prior \cup {p.def}
       /\ \A def \in DOMAIN prior \ {p.def} : acc.refis[def] = prior[def]
       /\ IF Has(prior, p.def)
          THEN /\ Len(acc.s.types) = Len(types) + allocated + 1
               /\ acc.refis[p.def] = Len(acc.s.types)
               /\ acc.s.types[acc.refis[p.def]] = IntersectionTy(<<refined, prior[p.def]>>)
          ELSE /\ Len(acc.s.types) = Len(types) + allocated
               /\ acc.refis[p.def] = refined

LoweredProposition(prior, p, sense, eq) ==
    LET acc == LoweredInto(prior, p, sense, eq)
    IN RefinedType(acc, p, sense, eq) /\ StoredFor(acc, prior, p, sense, eq)

\* the propositions of a refinement lowered with eq true: those underneath
\* an Equivalence node, with the sense each is lowered at
RECURSIVE UnderEquivalence(_, _, _)
UnderEquivalence(r, sense, under) ==
    IF r.r = "Proposition" THEN IF under THEN <<[p |-> r, sense |-> sense]>> ELSE <<>>
    ELSE IF r.r = "Negation" THEN UnderEquivalence(r.refinement, ~sense, under)
    ELSE IF r.r = "Equivalence"
    THEN UnderEquivalence(r.lhs, sense, TRUE) \o UnderEquivalence(r.rhs, sense, TRUE)
    ELSE IF r.r \in {"Conjunction", "Disjunction"}
    THEN UnderEquivalence(r.lhs, sense, under) \o UnderEquivalence(r.rhs, sense, under)
    ELSE <<>>

\* the constraints collected are those of the propositions underneath an
\* Equivalence, in order
EqExactlyUnderEquivalence(r) ==
    LET acc == LoweredInto(EmptyMap, r, TRUE, FALSE)
        under == UnderEquivalence(r, TRUE, FALSE)
    IN /\ Len(acc.cs) = Len(under)
       /\ \A i \in DOMAIN under :
              /\ acc.cs[i].kind = "SingletonOrTopType"
              /\ acc.s.types[acc.cs[i].args[1]] = BlockedTy
              /\ acc.cs[i].args[1] > Len(types)
              /\ acc.cs[i].args[2] = under[i].p.discriminantTy
              /\ acc.cs[i].name = (IF ~under[i].sense THEN "negated" ELSE "")

EquivalenceTrees ==
    LET px == proposition(<<"x">>, numberType)
        py == proposition(<<"y">>, stringType)
    IN {px, Neg(px), Equiv(px, py), Neg(Equiv(px, py)), Equiv(Neg(px), py),
        Equiv(Neg(Neg(px)), Neg(py)), Conj(px, Equiv(py, px)), Disj(Equiv(px, py), py),
        Neg(Conj(Neg(Equiv(px, Neg(py))), px)), Conj(Neg(px), Disj(py, px)),
        Equiv(Conj(px, Neg(py)), px)}

\* the equality assertions the traversal applied and the constraints each
\* emitted
EqualityAssertions ==
    {a \in Range(log.assertions) : a.refinement.r = "Equivalence" /\ ~a.thrown}

AppliedEquivalence(a) ==
    LET under == UnderEquivalence(a.refinement, TRUE, FALSE)
        emitted == {c \in Range(constraints) : c.cid > a.start /\ c.cid <= a.end}
    IN /\ Cardinality(emitted) = Len(under)
       /\ \A c \in emitted :
              /\ c.kind = "SingletonOrTopType"
              /\ types[c.args[1]].tag = "Blocked"
              /\ c.name = ""
              /\ \E i \in DOMAIN under : under[i].p.discriminantTy = c.args[2]

C22_PropositionLowering ==
    /\ Done =>
           /\ \A p \in Propositions, prior \in PriorMaps, sense, eq \in BOOLEAN :
                  LoweredProposition(prior, p, sense, eq)
           /\ \A r \in EquivalenceTrees : EqExactlyUnderEquivalence(r)
    /\ ~thrown => \A a \in EqualityAssertions : AppliedEquivalence(a)

C22_Witness ==
    /\ Done
    /\ \E a \in EqualityAssertions :
           /\ UnderEquivalence(a.refinement, TRUE, FALSE) # <<>>
           /\ \E c \in Range(constraints) :
                  /\ c.cid > a.start /\ c.cid <= a.end
                  /\ c.kind = "SingletonOrTopType" /\ c.name = ""
                  /\ types[c.args[1]].tag = "Blocked"

\* read without the eq condition on its first case: at sense true the
\* refined type is discTy itself
C22_AsStated ==
    Done => \A p \in Propositions, eq \in BOOLEAN :
                LoweredInto(EmptyMap, p, TRUE, eq).refis[p.def] = p.discriminantTy

\* C23: for a comparison between a call type(x) or typeof(x) and a string
\* literal S, operands in either order, where x has a definition, the
\* refinement is Proposition(def(x), D) for `==` and
\* Negation(Proposition(def(x), D)) for `~=`; D is the primitive type named S
\* for S in {nil, string, number, boolean, table, function} and never for
\* every other S under type(); the refinement is null when x has no
\* definition.
IsGuardCall(e) ==
    e.k = "Call" /\ e.func.k = "Global" /\ e.func.name \in {"type", "typeof"} /\ Len(e.args) = 1

IsComparison(b) ==
    /\ b.k = "Binary" /\ b.op \in {"==", "~="}
    /\ \/ IsGuardCall(b.left) /\ b.right.k = "ConstantString"
       \/ IsGuardCall(b.right) /\ b.left.k = "ConstantString"

GuardCall(b) == IF IsGuardCall(b.left) THEN b.left ELSE b.right

GuardString(b) == IF IsGuardCall(b.left) THEN b.right.value ELSE b.left.value

PrimitiveNames == {"nil", "string", "number", "boolean", "table", "function"}

\* the assertions of a comparison that the traversal applied within the
\* recursion limit
Comparisons ==
    {st \in Range(program.body) :
        /\ \A e \in Range(errors) : e.kind # "CodeTooComplex"
        /\ st.k = "Expr" /\ st.expr.k = "Call"
        /\ st.expr.func.k = "Global" /\ st.expr.func.name = "assert"
        /\ Len(st.expr.args) = 1 /\ IsComparison(st.expr.args[1])
        /\ \E a \in Range(log.assertions) : a.call = st.expr.id /\ ~a.thrown}

RefinementOf(st) ==
    (CHOOSE a \in Range(log.assertions) : a.call = st.expr.id /\ ~a.thrown).refinement

ComparisonRefines(st, D) ==
    LET b == st.expr.args[1]
        x == GuardCall(b).args[1]
        p == proposition(<<x.local>>, D)
    IN IF x.k = "Local" /\ x.local \notin noDefs
       THEN RefinementOf(st) = (IF b.op = "==" THEN p ELSE Neg(p))
       ELSE RefinementOf(st) = NoRefinement

C23_TypeGuardRefinement ==
    \A st \in Comparisons :
        LET b == st.expr.args[1]
            S == GuardString(b)
        IN /\ S \in PrimitiveNames => ComparisonRefines(st, BuiltinId(S))
           /\ (S \notin PrimitiveNames /\ GuardCall(b).func.name = "type") =>
                  ComparisonRefines(st, neverType)

\* outside "boolean" the comparisons refine as stated
TypeGuardOutsideBoolean ==
    \A st \in Comparisons :
        LET b == st.expr.args[1]
            S == GuardString(b)
        IN /\ S \in PrimitiveNames \ {"boolean"} => ComparisonRefines(st, BuiltinId(S))
           /\ S = "boolean" => ComparisonRefines(st, threadType)
           /\ (S \notin PrimitiveNames /\ GuardCall(b).func.name = "type") =>
                  ComparisonRefines(st, neverType)

\* C24: checking a string or boolean literal without forceSingleton returns
\* the base primitive type and emits no constraint when the expected type is
\* absent or, after follow, neither Blocked nor PendingExpansion nor a type
\* that may be a singleton (then the singleton type is returned, no
\* constraint); when the expected type is Blocked or PendingExpansion it
\* returns a fresh Blocked type and emits exactly one
\* PrimitiveType(blocked, expected, singleton, base) constraint; with
\* forceSingleton it returns the singleton type and emits nothing.
LiteralNodes == {EString("lit", "a"), EBool("lit", TRUE), EBool("lit", FALSE)}

CheckLiteral(lit, expectedType, forceSingleton) ==
    IF lit.k = "ConstantString"
    THEN checkConstantString(State, rootScope, lit, expectedType, forceSingleton)
    ELSE checkConstantBool(State, rootScope, lit, expectedType, forceSingleton)

BaseOf(lit) == IF lit.k = "ConstantString" THEN stringType ELSE booleanType

\* the type r is the singleton type of the literal
IsSingletonOf(r, ty, lit) ==
    IF lit.k = "ConstantString"
    THEN r.types[ty] = SingletonTy(lit.value)
    ELSE ty = (IF lit.value THEN trueType ELSE falseType)

\* the expected types: none (0) and every type of the arena
ExpectedTypes == {0} \cup DOMAIN types

WaitsFor(expectedType) ==
    expectedType # 0 /\ types[follow(State, expectedType)].tag \in {"Blocked", "PendingExpansion"}

\* a singleton, or a union with a singleton among its options
MayBeSingleton(expectedType) ==
    /\ expectedType # 0
    /\ LET t == types[follow(State, expectedType)]
       IN \/ t.tag = "Singleton"
          \/ t.tag = "Union" /\ \E i \in DOMAIN t.parts :
                                    types[follow(State, t.parts[i])].tag = "Singleton"

EmitsNothing(r) == r.constraints = constraints

ReturnsSingleton(r, lit) == IsSingletonOf(r, r.ret.ty, lit) /\ EmitsNothing(r)

ReturnsBase(r, lit) == r.ret.ty = BaseOf(lit) /\ EmitsNothing(r) /\ r.types = types

ReturnsBlocked(r, lit, expectedType) ==
    /\ r.ret.ty = Len(types) + 1
    /\ r.types[r.ret.ty] = BlockedTy
    /\ Len(r.constraints) = Len(constraints) + 1
    /\ SubSeq(r.constraints, 1, Len(constraints)) = constraints
    /\ LET c == r.constraints[Len(r.constraints)]
       IN /\ c.kind = "PrimitiveType"
          /\ Len(c.args) = 4
          /\ c.args[1] = r.ret.ty
          /\ c.args[2] = follow(State, expectedType)
          /\ IsSingletonOf(r, c.args[3], lit)
          /\ c.args[4] = BaseOf(lit)

LiteralChecked(lit, expectedType, forceSingleton) ==
    LET r == CheckLiteral(lit, expectedType, forceSingleton)
    IN IF forceSingleton THEN ReturnsSingleton(r, lit)
       ELSE IF WaitsFor(expectedType) THEN ReturnsBlocked(r, lit, expectedType)
       ELSE IF MayBeSingleton(expectedType) THEN ReturnsSingleton(r, lit)
       ELSE ReturnsBase(r, lit)

\* the literals the traversal checked against an expected type
CheckedLiterals ==
    {id \in DOMAIN astTypes \cap DOMAIN astExpectedTypes :
        types[astTypes[id]].tag = "Singleton" /\ MayBeSingleton(astExpectedTypes[id])}

C24_LiteralCheck ==
    Done => \A lit \in LiteralNodes, expectedType \in ExpectedTypes, forceSingleton \in BOOLEAN :
                LiteralChecked(lit, expectedType, forceSingleton)

C24_Witness ==
    /\ Done
    /\ CheckedLiterals # {}
    /\ \E a, b, c \in DOMAIN types :
           WaitsFor(a) /\ MayBeSingleton(b) /\ ~WaitsFor(c) /\ ~MayBeSingleton(c)

\* without the singleton case: the base primitive for every expected type
\* that is neither Blocked nor PendingExpansion
C24_AsStated ==
    Done => \A lit \in LiteralNodes, expectedType \in ExpectedTypes :
                ~WaitsFor(expectedType) => ReturnsBase(CheckLiteral(lit, expectedType, FALSE), lit)

\* C25: for an assignment target name.p1.….pn (n >= 1) where name is a
\* bound local or global, checkLValue emits exactly one
\* SetProp(updated, subject = the type bound to name, path = <<p1, …, pn>> in
\* source order, propTy) constraint and exactly n HasProp constraints; the
\* HasProp constraints form a chain (the first has subject updated, each
\* next the result of the previous one); the binding of name in the scope
\* where name is bound, and the refinement of its definition there, become
\* the Blocked type updated.
RECURSIVE TargetOf(_, _)
TargetOf(root, path) ==
    IF path = <<>> THEN root
    ELSE EIndexName("target", TargetOf(root, SubSeq(path, 1, Len(path) - 1)), path[Len(path)])

TargetRoots ==
    {ELocal("target.root", l) : l \in {"t", "v", "x", "nd"}}
        \cup {EGlobal("target.root", g) : g \in {"print", "u"}}

TargetPaths == {<<"a">>, <<"a", "b">>, <<"b", "a", "c">>}

SymbolOf(root) == IF root.k = "Local" THEN LSym(root.local) ELSE GSym(root.name)

IsBound(sc, root) == lookupEx(State, sc, SymbolOf(root)).ty # 0

Appended(r) == SubSeq(r.constraints, Len(constraints) + 1, Len(r.constraints))

FreshBlocked(r, ty) == ty > Len(types) /\ r.types[ty] = BlockedTy

SetsProperty(r, sc, root, path) ==
    LET new == Appended(r)
        found == lookupEx(State, sc, SymbolOf(root))
        setProp == new[1]
        updated == setProp.args[1]
    IN /\ Len(new) = Len(path) + 1
       /\ setProp.kind = "SetProp"
       /\ FreshBlocked(r, updated)
       /\ setProp.args[2] = found.ty
       /\ setProp.name = path
       /\ setProp.args[3] = r.ret
       /\ \A i \in 1..Len(path) :
              LET link == new[i + 1]
              IN /\ link.kind = "HasProp"
                 /\ link.name = path[i]
                 /\ FreshBlocked(r, link.args[1])
                 /\ link.args[2] = (IF i = 1 THEN updated ELSE new[i].args[1])
       /\ r.scopes[found.scope].bindings[SymbolOf(root)] = updated
       /\ (root.k = "Local" /\ root.local \notin noDefs) =>
              /\ Has(r.scopes[found.scope].dcrRefinements, <<root.local>>)
              /\ r.scopes[found.scope].dcrRefinements[<<root.local>>] = updated

C25_AssignmentTarget ==
    Done => \A sc \in DOMAIN scopes, root \in TargetRoots, path \in TargetPaths :
                IsBound(sc, root) =>
                    SetsProperty(checkLValue(State, sc, TargetOf(root, path)), sc, root, path)

\* t.a.b = 2 in the traversal, and a scope below the one that binds a name
C25_Witness ==
    /\ Done
    /\ \E i \in DOMAIN constraints :
           LET c == constraints[i]
           IN /\ c.kind = "SetProp" /\ Len(c.name) = 2
              /\ Cardinality({j \in DOMAIN constraints :
                                  constraints[j].kind = "HasProp" /\ constraints[j].loc = c.loc}) = 2
              /\ \E sc \in DOMAIN scopes, l \in {"t", "v", "x"} :
                     /\ Has(scopes[sc].bindings, LSym(l))
                     /\ scopes[sc].bindings[LSym(l)] = c.args[1]
    /\ \E sc \in DOMAIN scopes, root \in TargetRoots :
           IsBound(sc, root) /\ lookupEx(State, sc, SymbolOf(root)).scope # sc

\* C26: resolving a reference to a generic type alias allocates one
\* PendingExpansion and emits exactly one TypeAliasExpansion(target)
\* constraint when the reference is not resolved as a type argument of
\* another alias application, and emits none when it is reached inside type
\* arguments through tables, functions, unions and intersections at any
\* depth; a reference in the expression of a typeof inside type arguments is
\* resolved on its own and emits its constraint.  Resolving a reference to a
\* non-generic alias returns the alias head itself and emits no constraint.
AliasNames == {"G", "A", "B", "number", "string", "nil"}

AliasOf(name) == lookupType(State, rootScope, name)

IsGenericAlias(name) == AliasOf(name).type # 0 /\ Len(AliasOf(name).typeParams) > 0

IsPlainAlias(name) == AliasOf(name).type # 0 /\ Len(AliasOf(name).typeParams) = 0

Applied1(id, g, argument) == TRef(id, g, <<argument>>)

\* the ways to an inner reference through the type arguments of an outer one
ThroughAnnotations(inner) ==
    {inner,
     TTable("arg.t", <<TProp("p", inner)>>),
     TUnion("arg.u", <<Num("arg.n"), inner>>),
     TIntersection("arg.i", <<inner, Num("arg.n")>>),
     TFunction("arg.f", <<>>, <<inner>>, <<Num("arg.n")>>),
     TFunction("arg.f", <<>>, <<>>, <<TTable("arg.t", <<TProp("p", inner)>>)>>)}

ThroughTypeof(inner) == TTypeof("arg.of", ETypeAssertion("arg.e", ENumber("arg.v"), inner))

Resolved(ty, inTypeArguments) == resolveType(State, rootScope, ty, inTypeArguments)

Pendings(r) == {t \in (Len(types) + 1)..Len(r.types) : r.types[t].tag = "PendingExpansion"}

Expansions(r) ==
    {i \in DOMAIN Appended(r) : Appended(r)[i].kind = "TypeAliasExpansion"}

ExpansionTargets(r) == {Appended(r)[i].args[1] : i \in Expansions(r)}

ExpandsItself(r) ==
    /\ r.ret \in Pendings(r)
    /\ Cardinality(Expansions(r)) = 1
    /\ ExpansionTargets(r) = {r.ret}

GenericReference(g) ==
    LET inner == Applied1("in", g, Num("in.n"))
        top == Resolved(inner, FALSE)
        argument == Resolved(inner, TRUE)
        under == Resolved(TTable("top.t", <<TProp("p", inner)>>), FALSE)
        typeofArgument == Resolved(Applied1("out", g, ThroughTypeof(inner)), FALSE)
    IN /\ ExpandsItself(top) /\ Cardinality(Pendings(top)) = 1
       /\ argument.ret \in Pendings(argument) /\ Cardinality(Pendings(argument)) = 1
       /\ Expansions(argument) = {}
       /\ Cardinality(Pendings(under)) = 1 /\ ExpansionTargets(under) = Pendings(under)
       /\ \A a \in ThroughAnnotations(inner) :
              LET r == Resolved(Applied1("out", g, a), FALSE)
              IN ExpandsItself(r) /\ Cardinality(Pendings(r)) = 2
       /\ Cardinality(Pendings(typeofArgument)) = 2
       /\ ExpansionTargets(typeofArgument) = Pendings(typeofArgument)
       /\ Cardinality(Expansions(typeofArgument)) = 2

PlainReference(name) ==
    LET r == Resolved(TRef("in", name, <<>>), FALSE)
    IN r.ret = AliasOf(name).type /\ r.types = types /\ r.constraints = constraints

C26_AliasReference ==
    Done => \A name \in AliasNames :
                /\ IsGenericAlias(name) => GenericReference(name)
                /\ IsPlainAlias(name) => PlainReference(name)

\* a traversal that expanded a generic alias, and a plain one in scope
C26_Witness ==
    /\ Done
    /\ \E name \in AliasNames : IsGenericAlias(name)
    /\ \E name \in AliasNames : IsPlainAlias(name)
    /\ \E i \in DOMAIN constraints : constraints[i].kind = "TypeAliasExpansion"

\* inside type arguments at any nesting depth, the expression of a typeof
\* included, no constraint but the outer one
C26_AsStated ==
    Done => \A name \in AliasNames :
                IsGenericAlias(name) =>
                    ExpandsItself(Resolved(Applied1("out", name,
                                                    ThroughTypeof(Applied1("in", name, Num("in.n")))),
                                           FALSE))

\* C27: every check of an index-name expression x.f checks x, allocates a
\* fresh result type, emits one Subtype(type(x), FreeTable{f: result})
\* constraint and returns that result; when the expression has a definition,
\* dcrRefinements[def] is set to result and the returned refinement is
\* Proposition(def, truthy); also when the same definition is checked a
\* second time in the same scope chain.
IndexSubjects == {ELocal("ix.x", l) : l \in {"t", "nd", "a", "v"}}

IndexFields == {"x", "y", "w"}

IndexNameOf(x, f) == EIndexName("ix", x, f)

SubjectBound(sc, x) == lookup(State, sc, LSym(x.local)) # 0

\* what check(scope, x) returns for the local x
SubjectType(sc, x) == rTy(check(State, sc, x, 0, FALSE))

ChecksIndexName(r, sc, x, f) ==
    LET new == Appended(r)
        result == r.ret.ty
        def == getDef(State, IndexNameOf(x, f))
    IN /\ result > Len(types) /\ r.types[result] = FreeTy
       /\ Len(new) = 1
       /\ new[1].kind = "Subtype"
       /\ new[1].args[1] = SubjectType(sc, x)
       /\ new[1].args[2] > Len(types)
       /\ r.types[new[1].args[2]] = TableTy(Put(EmptyMap, f, result), "Free")
       /\ IF def # NoDef
          THEN /\ Has(r.scopes[sc].dcrRefinements, def)
               /\ r.scopes[sc].dcrRefinements[def] = result
               /\ r.ret.refinement = proposition(def, truthyType)
          ELSE r.ret.refinement = NoRefinement

\* the definition of x.f has a type in the scope chain already
CheckedBefore(sc, x, f) ==
    LET def == getDef(State, IndexNameOf(x, f))
    IN def # NoDef /\ lookupDef(State, sc, def) # 0

C27_IndexNameCheck ==
    Done => \A sc \in DOMAIN scopes, x \in IndexSubjects, f \in IndexFields :
                SubjectBound(sc, x) =>
                    ChecksIndexName(checkIndexName(State, sc, IndexNameOf(x, f)), sc, x, f)

\* a first check of a definition is as stated; a second one returns the type
\* the scope chain has for the definition and emits nothing
IndexNameFirstCheck ==
    Done => \A sc \in DOMAIN scopes, x \in IndexSubjects, f \in IndexFields :
                SubjectBound(sc, x) =>
                    LET r == checkIndexName(State, sc, IndexNameOf(x, f))
                        def == getDef(State, IndexNameOf(x, f))
                    IN IF CheckedBefore(sc, x, f)
                       THEN /\ r.ret.ty = lookupDef(State, sc, def)
                            /\ r.ret.refinement = proposition(def, truthyType)
                            /\ Appended(r) = <<>>
                            /\ r.scopes = scopes
                       ELSE ChecksIndexName(r, sc, x, f)

\* local a = t.x; local b = t.x: the traversal checked t.x twice
IndexNameCheckedTwice ==
    /\ Done
    /\ {"a.init", "b.init"} \subseteq DOMAIN astTypes
    /\ astTypes["a.init"] = astTypes["b.init"]
    /\ \E sc \in DOMAIN scopes : CheckedBefore(sc, ELocal("ix.x", "t"), "x")

\* C28: applyRefinements(scope, location, r) writes only to the
\* dcrRefinements map of the scope it is given: the dcrRefinements of every
\* other scope and all bindings stay as they are, so a refinement applied
\* for an if-branch or for the right operand of and/or is not visible in the
\* enclosing scope; with a null refinement nothing changes, no type is
\* allocated and no constraint emitted.
ApplicableRefinements == Applied \cup Propositions \cup {NoRefinement}

OnlyRefines(r, sc) ==
    /\ \A other \in DOMAIN scopes \ {sc} : r.scopes[other] = scopes[other]
    /\ DOMAIN r.scopes = DOMAIN scopes
    /\ r.scopes[sc] = [scopes[sc] EXCEPT !.dcrRefinements = r.scopes[sc].dcrRefinements]

\* the types a branch's scope holds for the definitions it refined are not
\* what the enclosing scope sees
NotVisibleOutside(b) ==
    \A def \in b.own :
        /\ Has(scopes[b.scope].dcrRefinements, def)
        /\ lookupDef(State, b.parent, def) # scopes[b.scope].dcrRefinements[def]

C28_RefinementsStayInScope ==
    /\ Done => \A sc \in DOMAIN scopes, refinement \in ApplicableRefinements :
                   LET r == applyRefinements(State, sc, "at", refinement)
                   IN /\ OnlyRefines(r, sc)
                      /\ refinement = NoRefinement => r = State
    /\ Done => \A b \in Range(log.branches) : b.fresh => NotVisibleOutside(b)

C28_Witness ==
    /\ Done
    /\ \E b \in Range(log.branches) : b.fresh /\ b.own # {} /\ b.parent # 0
    /\ \E sc \in DOMAIN scopes, refinement \in Applied :
           LET r == applyRefinements(State, sc, "at", refinement)
           IN /\ ~r.thrown
              /\ r.scopes[sc].dcrRefinements # scopes[sc].dcrRefinements
              /\ scopes[sc].parent # 0
              /\ scopes[scopes[sc].parent].dcrRefinements # EmptyMap
              /\ \E other \in DOMAIN scopes \ {sc} : scopes[other].parent = scopes[sc].parent

\* C29: the recursion counter is the nesting depth of the traversal: every
\* entry into visit(stat), visitBlockWithoutChildScope, check and checkPack
\* increments it, and every return, the early return at the limit included,
\* restores the value it had on entry; the counter is 0 again when the
\* top-level visit of the module is over, and a CodeTooComplex in one
\* subtree does not lower the depth available to its siblings.
AtDepth(k) == [State EXCEPT !.recursionCount = k]

Depths == 0..(limit + 1)

TooComplex(r) ==
    /\ Len(r.errors) > Len(errors)
    /\ \A i \in (Len(errors) + 1)..Len(r.errors) : r.errors[i].kind = "CodeTooComplex"

Quiet(r) == r.errors = errors

\* the entries increment: a leaf entered at depth k is at k + 1, and what it
\* enters at k + 2
EntriesIncrement(k) ==
    LET leaf == ENumber("leaf")
        emptyBlock == SBlock("leaf.emptyBlock", <<>>)
        checkLeaf == check(AtDepth(k), rootScope, leaf, 0, FALSE)
        packLeaf == checkPack(AtDepth(k), rootScope, leaf, <<>>)
        statements == visitBlockWithoutChildScope(AtDepth(k), rootScope, emptyBlock)
        stat == visit(AtDepth(k), rootScope, emptyBlock)
    IN /\ IF k + 1 >= limit THEN TooComplex(checkLeaf) ELSE Quiet(checkLeaf)
       /\ IF k + 2 >= limit THEN TooComplex(packLeaf) ELSE Quiet(packLeaf)
       /\ IF k + 1 >= limit THEN TooComplex(statements) ELSE Quiet(statements)
       /\ stat.thrown = (k + 1 > limit)
       /\ ~stat.thrown => IF k + 2 >= limit THEN TooComplex(stat) ELSE Quiet(stat)
       /\ checkLeaf.recursionCount = k /\ packLeaf.recursionCount = k
       /\ statements.recursionCount = k /\ stat.recursionCount = k

\* the next statement of the module, visited at a depth near the limit
NearLimit == {k \in {1, limit - 2, limit - 1, limit} : k >= 0}

ReturnsRestore(k) ==
    LET stat == program.body[next]
        r == visit(AtDepth(k), rootScope, stat)
    IN /\ r.recursionCount = k
       /\ stat.k = "Expr" => check(AtDepth(k), rootScope, stat.expr, 0, FALSE).recursionCount = k
       /\ stat.k = "LocalStat" =>
              \A i \in DOMAIN stat.values :
                  checkPack(AtDepth(k), rootScope, stat.values[i], <<>>).recursionCount = k
       /\ stat.k = "Block" =>
              visitBlockWithoutChildScope(AtDepth(k), rootScope, stat).recursionCount = k

C29_RecursionCounterRestored ==
    /\ pc = "start" => recursionCount = 0
    /\ pc = "body" => recursionCount = 1
    /\ pc = "done" => recursionCount = 0
    /\ (pc = "body" /\ ~thrown) => \A k \in Depths : EntriesIncrement(k)
    /\ (pc = "body" /\ ~thrown /\ next <= Len(program.body)) =>
           \A k \in NearLimit : ReturnsRestore(k)

\* a statement follows one that reported CodeTooComplex below it, and the
\* statement itself reaches the limit below it
C29_Witness ==
    /\ pc = "body" /\ ~thrown /\ next <= Len(program.body) /\ next > 1
    /\ \E i \in DOMAIN errors : errors[i].kind = "CodeTooComplex"
    /\ log.limits # <<>>
    /\ recursionCount = 1
    /\ LET r == visit(State, rootScope, program.body[next])
       IN ~r.thrown /\ TooComplex(r) /\ r.recursionCount = 1

(***************************************************************************)
(* buildFunctionIr: blocks, terminated blocks and fallthrough.             *)
(***************************************************************************)
Rebuilt == ir.stage \in {"translate", "done", "fault"}

StartsBlock(i) == ir.instIndexToBlock[i + 1] # kNoAssociatedBlockIndex

\* a jump of the bytecode that is not a fastcall goes to i
JumpedTo(i) ==
    \E j \in InstStarts(ir.code) :
        /\ CodeAt(ir.code, j).op = "LOP_JUMP"
        /\ j + 1 + CodeAt(ir.code, j).d = i

\* a bytecode block at instruction 0 and at every jump target that does not
\* belong to a fastcall, and nowhere else
BlocksAtTargets ==
    Rebuilt =>
        \A i \in 0..(Len(ir.code) - 1) :
            /\ StartsBlock(i) <=> (i = 0 \/ JumpedTo(i))
            /\ StartsBlock(i) => ir.blocks[ir.instIndexToBlock[i + 1] + 1].kind = "Bytecode"

\* an instruction is translated only when no terminator was emitted since the
\* last beginBlock, and passed over only when one was
TranslatedInOpenBlock ==
    /\ \A k \in DOMAIN ir.translated :
           \A n \in DOMAIN ir.translated[k].sinceBegin :
               ~isBlockTerminator(ir.translated[k].sinceBegin[n])
    /\ ir.inTerminatedBlock <=>
           \E n \in DOMAIN ir.sinceBegin : isBlockTerminator(ir.sinceBegin[n])

\* the loop is between two instructions and the next one starts a block
BeforeBlock == Rebuilt /\ ir.i > 0 /\ ir.i < Len(ir.code) /\ StartsBlock(ir.i)

LastIsTerminator ==
    /\ ir.stage # "fault"
    /\ ir.instructions # <<>>
    /\ isBlockTerminator(ir.instructions[Len(ir.instructions)].cmd)

\* C30: buildFunctionIr makes a bytecode block at instruction 0 and at every
\* jump target that is not a fastcall's, translates no instruction that
\* follows a block terminator before the next beginBlock, and has a block
\* terminator as the last IR instruction whenever the next bytecode
\* instruction starts a block, also when no IR instruction was emitted yet.
C30_BlocksAndTerminators ==
    /\ BlocksAtTargets
    /\ TranslatedInOpenBlock
    /\ BeforeBlock => LastIsTerminator

\* The same holds of every function whose instructions before a block emitted
\* an IR instruction: instructions.back() is then the back of a vector that
\* is not empty.
BlocksAndTerminatorsAfterAnInstruction ==
    ~ir.undefinedBack =>
        /\ BlocksAtTargets
        /\ TranslatedInOpenBlock
        /\ BeforeBlock => LastIsTerminator

\* instructions.back() was read while no IR instruction was emitted
BackOfNoInstruction == BeforeBlock /\ ir.undefinedBack

\* a JUMP to the next block was inserted on fallthrough
FallthroughJump ==
    /\ BeforeBlock /\ ~ir.undefinedBack
    /\ ir.sinceBegin # <<>>
    /\ Len(ir.sinceBegin) >= 2
    /\ ir.sinceBegin[Len(ir.sinceBegin) - 1] = "LOP_COVERAGE"
    /\ ir.instructions[Len(ir.instructions)] =
           [cmd |-> "JUMP", a |-> BlockOp(ir.instIndexToBlock[ir.i + 1])]

\* an instruction after a terminator was passed over
PassedOver == ir.stage = "done" /\ ir.skipped # {}

\* no LUAU_ASSERT of the builder fails
NoIrAssertFails == ir.failed = {}

====
